---- MODULE Spec2Model ----
(***************************************************************************)
(* light-async-queue: the job queue runtime (Queue.ts), its scheduler,     *)
(* rate limiter, dead letter queue and the two storage back-ends           *)
(* (MemoryStore.ts, FileStore.ts), as a state machine.                     *)
(*                                                                         *)
(* Execution model.  Node runs one macrotask at a time (a timer, an I/O    *)
(* completion, an IPC message, an API call from the application) and       *)
(* drains the microtask queue after each.  An `await` of a promise that is *)
(* already settled costs one microtask hop; an `await` of real I/O parks   *)
(* the task until the completion arrives as a macrotask.  The variable mq  *)
(* is the microtask queue (FIFO); every macrotask action is guarded by     *)
(* Quiet (mq and the scheduler's synchronous emit loop are empty).         *)
(***************************************************************************)
EXTENDS Integers, Sequences, FiniteSets, TLC

(* ------------------------------ bounds --------------------------------- *)

JobIds == {"a", "b", "c"}

\* The ids used where two jobs are enough.
StoreIds == {"a", "b"}

\* The clock runs over 0..MaxTime.
MaxTime == 3

\* The main log file holds at most MaxLogLen lines (appends are disabled
\* beyond it).
MaxLogLen == 3

\* The process is restarted (a new store or queue over the same files) at
\* most MaxRestarts times.
MaxRestarts == 1

\* config.retry.maxAttempts of the modelled queue.
MaxAttempts == 2

\* The application makes at most MaxCalls calls of add() / reprocessFailed().
MaxCalls == 3

\* `undefined` for the optional numeric fields startedAt / completedAt.
Undefined == -1

Statuses == {"waiting", "delayed", "pending", "processing", "completed",
             "failed", "stalled"}

(* ------------------------------ job records ---------------------------- *)

Fields == {"id", "status", "attempts", "maxAttempts", "priority", "progress",
           "nextRunAt", "delay", "dependsOn", "updatedAt", "startedAt",
           "completedAt", "repeatConfig", "repeatCount"}

OptionalFields == {"startedAt", "completedAt"}

\* An empty slot of a Map (Map.get returns undefined).
NoJob == [status |-> "absent"]

\* options.repeat when the caller gives none.
NoRepeat ==
  [pattern |-> "", every |-> Undefined, limit |-> Undefined,
   startDate |-> Undefined, endDate |-> Undefined]

\* Job.constructor: status from delay / dependsOn, nextRunAt = now + delay.
NewJob(id, maxAttempts, delay, dependsOn, priority, t) ==
  [id |-> id,
   status |-> IF delay > 0 THEN "delayed"
              ELSE IF dependsOn # {} THEN "waiting" ELSE "pending",
   attempts |-> 0,
   maxAttempts |-> maxAttempts,
   priority |-> priority,
   progress |-> 0,
   nextRunAt |-> t + delay,
   delay |-> delay,
   dependsOn |-> dependsOn,
   updatedAt |-> t,
   startedAt |-> Undefined,
   completedAt |-> Undefined,
   repeatConfig |-> NoRepeat,
   repeatCount |-> 0]

\* Job.createRepeatInstance: Job.fromData(this.toData()) keeps every other
\* field, the id among them.
createRepeatInstance(job) ==
  [job EXCEPT !.attempts = 0, !.status = "pending",
              !.repeatCount = job.repeatCount + 1, !.progress = 0,
              !.startedAt = Undefined, !.completedAt = Undefined]

\* Job.markProcessing
markProcessing(job, t) ==
  [job EXCEPT !.status = "processing", !.startedAt = t, !.updatedAt = t]

\* markCompleted without `this.progress = 100`.
markCompleted_KeepsProgress(job, t) ==
  [job EXCEPT !.status = "completed", !.completedAt = t, !.updatedAt = t]

\* Job.markCompleted
markCompleted(job, t) ==
  [job EXCEPT !.status = "completed", !.completedAt = t, !.updatedAt = t,
              !.progress = 100]

\* Job.markFailed: attempts is incremented first, the status follows from it.
markFailed(job, nextRunAt, t) ==
  [job EXCEPT !.attempts = job.attempts + 1,
              !.status = IF job.attempts + 1 >= job.maxAttempts
                         THEN "failed" ELSE "pending",
              !.nextRunAt = nextRunAt,
              !.updatedAt = t]

\* hasExceededMaxAttempts with a strict comparison
hasExceededMaxAttempts_Strict(job) == job.attempts > job.maxAttempts

\* Job.hasExceededMaxAttempts
hasExceededMaxAttempts(job) == job.attempts >= job.maxAttempts

\* A reset that keeps the attempts the job had used up.
reset_KeepAttempts(job, t) ==
  [job EXCEPT !.status = "pending", !.nextRunAt = t,
              !.updatedAt = t, !.progress = 0, !.startedAt = Undefined,
              !.completedAt = Undefined]

\* Job.reset (DeadLetterQueue.remove)
reset(job, t) ==
  [job EXCEPT !.attempts = 0, !.status = "pending", !.nextRunAt = t,
              !.updatedAt = t, !.progress = 0, !.startedAt = Undefined,
              !.completedAt = Undefined]

\* Job.markStalled
markStalled(job, t) == [job EXCEPT !.status = "stalled", !.updatedAt = t]

\* Job.isStalled
isStalled(job, threshold, t) ==
  IF job.status # "processing" \/ job.startedAt = Undefined
    THEN FALSE
    ELSE t - job.startedAt > threshold

\* Job.areDependenciesSatisfied
areDependenciesSatisfied(job, completedIds) ==
  \A d \in job.dependsOn : d \in completedIds

(* ------------------------ the log's line format ------------------------ *)

\* JSON.stringify drops the fields whose value is undefined.
Serialize(job) ==
  [f \in (Fields \ {g \in OptionalFields : job[g] = Undefined}) |-> job[f]]

\* JSON.parse: a field missing from the line reads as undefined.
Parse(line) ==
  [f \in Fields |-> IF f \in DOMAIN line THEN line[f] ELSE Undefined]

(* ------------------------------ Map helpers ---------------------------- *)

\* Map.set keeps the position of a key that is present, else appends.
MapSetOrder(order, id) ==
  IF \E i \in 1..Len(order) : order[i] = id THEN order ELSE Append(order, id)

\* Map.delete
MapDeleteOrder(order, id) == SelectSeq(order, LAMBDA x : x # id)

EmptyMap == [id \in JobIds |-> NoJob]

(* ------------------------------ state ---------------------------------- *)

VARIABLES
  config,          \* QueueConfig: [storage, concurrency, rateLimited]
  now,             \* Date.now()
  jobs,            \* storage.jobs: id -> record (NoJob when absent)
  jobOrder,        \* insertion order of storage.jobs (a JS Map iterates in it)
  deadLetterJobs,  \* storage.deadLetterJobs
  log,             \* content of the main log file: a sequence of lines
  dlqLog,          \* content of the dead-letter log file
  fsOpen,          \* FileStore: the append streams are open
  restarts,        \* how many times a new process re-opened the files
  isInitialized,   \* Queue.isInitialized
  isRunning,       \* Scheduler.isRunning
  interval,        \* Scheduler.interval holds a timer (is not null)
  tickers,         \* how many setInterval timers of the scheduler are armed
  activeJobs,      \* Queue.activeJobs: the ids of the Map
  completedJobIds, \* Queue.completedJobIds
  tokens,          \* RateLimiter.tokens
  lastRefill,      \* RateLimiter.lastRefill
  workers,         \* Queue.workers: per worker its currentJobId ("-" is null)
  pc,              \* per job id: where its handleJobReady call is parked
  hjob,            \* per job id: the handler's local Job object
  hworker,         \* per job id: the index of the worker the handler holds
  hdeps,           \* per job id: checkDependentJobs' snapshot, still to visit
  mq,              \* the microtask queue: continuations ready to resume
  offerQ,          \* Scheduler.tick's emit loop: snapshots still to emit
  wq,              \* writes accepted by the main append stream, not yet done
  fsq,             \* other file operations in flight (DLQ append, writeFile)
  spc,             \* where checkStalledJobs is parked
  sweepQ,          \* checkStalledJobs' snapshot, still to visit
  emitted,         \* the events the queue has emitted: <<type, id>>
  nCalls,          \* how many add() / reprocessFailed() calls were made
  isShuttingDown,  \* Queue.isShuttingDown
  sdpc,            \* where the shutdown() call is parked
  wstate,          \* per worker: its child process ("ready", "dead", "killed")
  paused,          \* pause() was called and resume() has not been since
  ret,             \* what the last reprocessFailed / rejected add returned
  dpc,             \* where the drain() call is parked
  dsnap,           \* drain: pendingJobs.length === 0 in its last snapshot
  nDrained,        \* how many DRAINED events were emitted
  repeatingJobs,   \* Queue.repeatingJobs: the armed recurrence timers
  progressSent     \* per job: the progress message its child sent last

storeVars == <<jobs, jobOrder, deadLetterJobs, log, dlqLog, fsOpen, restarts>>

schedVars == <<isRunning, interval, tickers>>

queueVars == <<isInitialized, schedVars, activeJobs, completedJobIds, workers>>

rateVars == <<tokens, lastRefill>>

handlerVars == <<pc, hjob, hworker, hdeps>>

loopVars == <<mq, offerQ>>

ioVars == <<wq, fsq>>

sweepVars == <<spc, sweepQ>>

ctlVars == <<isShuttingDown, sdpc, wstate, paused, ret>>

apiVars == <<dpc, dsnap, nDrained, repeatingJobs, progressSent>>

rtVars == <<queueVars, rateVars, handlerVars, loopVars, ioVars, sweepVars,
            emitted, nCalls>>

(* --------------------------- FileStore / MemoryStore ------------------- *)

IsFile == config.storage = "file"

\* FileStore.loadJobsFromFile, main log: every parsed line is jobs.set(id, job),
\* so a later line with the same id supersedes the earlier ones.
RECURSIVE LoadOrder(_, _)
LoadOrder(lines, order) ==
  IF lines = <<>> THEN order
  ELSE LoadOrder(Tail(lines), MapSetOrder(order, Parse(Head(lines)).id))

\* (mutant) the first line with an id wins: later lines do not supersede it.
RECURSIVE LoadLines_FirstWins(_, _)
LoadLines_FirstWins(lines, map) ==
  IF lines = <<>> THEN map
  ELSE LET job == Parse(Head(lines))
       IN LoadLines_FirstWins(Tail(lines),
            IF map[job.id] = NoJob THEN [map EXCEPT ![job.id] = job] ELSE map)

RECURSIVE LoadLines(_, _)
LoadLines(lines, map) ==
  IF lines = <<>> THEN map
  ELSE LET job == Parse(Head(lines))
       IN LoadLines(Tail(lines), [map EXCEPT ![job.id] = job])

\* (mutant) recovery re-arms the job without counting the lost attempt.
RecoverJob_NoIncrement(job, t) ==
  IF job.status = "processing"
    THEN [job EXCEPT !.status = "pending", !.nextRunAt = t, !.updatedAt = t]
    ELSE job

\* FileStore.performCrashRecovery: the loop over this.jobs.
RecoverJob(job, t) ==
  IF job.status = "processing"
    THEN [job EXCEPT !.status = "pending", !.attempts = job.attempts + 1,
                     !.nextRunAt = t, !.updatedAt = t]
    ELSE job

performCrashRecovery(map, t) == [id \in JobIds |-> RecoverJob(map[id], t)]

recoveredCount(map) == Cardinality({id \in JobIds : map[id].status = "processing"})

\* FileStore.rewriteJobFile: the file is written only when there is a line.
rewriteJobFile(map, order, oldLog) ==
  LET lines == [i \in 1..Len(order) |-> Serialize(map[order[i]])]
  IN IF Len(lines) > 0 THEN lines ELSE oldLog

\* FileStore.removeFromDeadLetter: the DLQ file is always rewritten.
RECURSIVE MapLines(_, _)
MapLines(map, ids) ==
  IF ids = {} THEN <<>>
  ELSE LET id == CHOOSE x \in ids : TRUE
       IN <<Serialize(map[id])>> \o MapLines(map, ids \ {id})

rewriteDlqFile(dlq) == MapLines(dlq, {id \in JobIds : dlq[id] # NoJob})

(* ------------------------------ the event loop ------------------------- *)

\* Worker.currentJobId === null
Idle == "-"

\* A continuation: k names the async function, id the job it works on, arg
\* what it holds in a local.
\* No call has returned yet.
NoRet == [op |-> "-", id |-> "-", value |-> "-"]

Task(k, id, arg) == [k |-> k, id |-> id, arg |-> arg]

HTask(j) == Task("h", j, NoJob)

\* No microtask is queued and no emit loop is running: the next macrotask
\* (timer, I/O completion, IPC message, API call) may start.
Quiet == mq = <<>> /\ offerQ = <<>>

\* The comparators handed to Array.prototype.sort.
ByNextRunAt(x, y) == x.nextRunAt < y.nextRunAt

\* A comparator that looks at nextRunAt only.
ByPriority_Ignored(x, y) == x.nextRunAt < y.nextRunAt

\* Scheduler.tick's comparator: higher priority first, then earlier nextRunAt.
ByPriority(x, y) ==
  \/ x.priority > y.priority
  \/ (x.priority = y.priority /\ x.nextRunAt < y.nextRunAt)

Before(cmp, x, y) ==
  IF cmp = "nextRunAt" THEN ByNextRunAt(x, y) ELSE ByPriority(x, y)

\* Array.prototype.sort is stable: an element goes after those that compare
\* before it, and after the equal ones that preceded it.
Rank(seq, i, cmp) ==
  Cardinality({k \in 1..Len(seq) :
                 \/ Before(cmp, seq[k], seq[i])
                 \/ (~Before(cmp, seq[i], seq[k]) /\ k < i)})

StableSort(seq, cmp) ==
  [p \in 1..Len(seq) |->
     seq[CHOOSE i \in 1..Len(seq) : Rank(seq, i, cmp) = p - 1]]

\* Array.from(this.jobs.values()): the records in insertion order.
MapValues(map, order) == [i \in 1..Len(order) |-> map[order[i]]]

\* getAllJobs
getAllJobs == MapValues(jobs, jobOrder)

\* getPendingJobs without its sort.
getPendingJobs_Unsorted(t) ==
  SelectSeq(getAllJobs,
            LAMBDA job : job.status = "pending" /\ job.nextRunAt <= t)

\* getPendingJobs(now): pending and due, oldest nextRunAt first.
getPendingJobs(t) ==
  StableSort(SelectSeq(getAllJobs,
                       LAMBDA job : job.status = "pending" /\ job.nextRunAt <= t),
             "nextRunAt")

\* getFailedJobs
getFailedJobs == MapLines(deadLetterJobs, {id \in JobIds : deadLetterJobs[id] # NoJob})

\* calculateDelay without the one-hour cap.
calculateDelay_Uncapped(attempt) ==
  IF config.backoffType = "exponential"
    THEN config.backoffDelay * 2 ^ (attempt - 1)
    ELSE config.backoffDelay

\* Backoff.calculateDelay
calculateDelay(attempt) ==
  IF config.backoffType = "exponential"
    THEN LET exponentialDelay == config.backoffDelay * 2 ^ (attempt - 1)
             maxDelay == 60 * 60 * 1000
         IN IF exponentialDelay < maxDelay THEN exponentialDelay ELSE maxDelay
    ELSE config.backoffDelay

\* Backoff.getNextRunAt
getNextRunAt(attempt) == now + calculateDelay(attempt)

\* stream.write: the chunk goes to the file when no write is in flight, else
\* it is buffered.
StreamWrite(s, e) ==
  IF s.inflight = <<>>
    THEN [s EXCEPT !.inflight = <<e>>]
    ELSE [s EXCEPT !.buffered = Append(s.buffered, e)]

\* storage.addJob / updateJob up to its await: the Map is set at once; the
\* file back-end then parks the caller on the stream write, the memory
\* back-end resumes it after a microtask hop.  q is the microtask queue the
\* caller leaves behind.
StoreWrite(job, task, q) ==
  /\ jobs' = [jobs EXCEPT ![job.id] = job]
  /\ jobOrder' = MapSetOrder(jobOrder, job.id)
  /\ IF IsFile
       THEN /\ wq' = StreamWrite(wq, [line |-> Serialize(job), task |-> task])
            /\ mq' = q
       ELSE /\ wq' = wq
            /\ mq' = Append(q, task)

\* Storage.initialize of a new store: the file back-end loads both files and
\* runs crash recovery, the memory back-end starts empty.
StorageInitialize ==
  IF IsFile
    THEN LET loaded == LoadLines(log, EmptyMap)
             order == LoadOrder(log, <<>>)
             recovered == performCrashRecovery(loaded, now)
         IN /\ jobs' = recovered
            /\ jobOrder' = order
            /\ log' = IF recoveredCount(loaded) > 0
                        THEN rewriteJobFile(recovered, order, log) ELSE log
            /\ deadLetterJobs' = LoadLines(dlqLog, EmptyMap)
            /\ fsOpen' = TRUE
    ELSE /\ jobs' = EmptyMap
         /\ jobOrder' = <<>>
         /\ deadLetterJobs' = EmptyMap
         /\ UNCHANGED <<log, fsOpen>>

\* Queue.initialize (run by the first API call): storage.initialize,
\* isInitialized, loadCompletedJobIds.
Q_initialize ==
  /\ ~isInitialized
  /\ StorageInitialize
  /\ isInitialized' = TRUE
  /\ completedJobIds' = {id \in JobIds : jobs'[id].status = "completed"}
  /\ UNCHANGED <<config, apiVars, ctlVars, now, dlqLog, restarts, schedVars, activeJobs, workers,
                 rateVars, handlerVars, loopVars, ioVars, sweepVars, emitted,
                 nCalls>>

\* The ids some job already carries (randomUUID never returns one of them).
KnownIds ==
  {id \in JobIds :
     \/ jobs[id] # NoJob \/ deadLetterJobs[id] # NoJob
     \/ \E i \in 1..Len(log) : log[i].id = id
     \/ \E i \in 1..Len(dlqLog) : dlqLog[i].id = id
     \/ \E e \in emitted : e[2] = id}

\* Queue.add(payload, options) up to `await storage.addJob`; supplied says
\* that options.jobId was given.
Add(id, delay, dependsOn, priority, supplied) ==
  /\ Quiet /\ isInitialized
  /\ ~isShuttingDown
  /\ nCalls < MaxCalls
  /\ supplied \/ id \notin KnownIds
  /\ LET job == NewJob(id, config.maxAttempts, delay, dependsOn, priority, now)
     IN StoreWrite(job, Task("add", id, job), mq)
  /\ nCalls' = nCalls + 1
  /\ UNCHANGED <<config, apiVars, ctlVars, now, deadLetterJobs, log, dlqLog, fsOpen, restarts,
                 queueVars, rateVars, handlerVars, offerQ, fsq, sweepVars,
                 emitted>>

\* Scheduler.start without its test of isRunning.
start_Unguarded ==
  /\ isRunning' = TRUE
  /\ interval' = TRUE
  /\ tickers' = tickers + 1

\* Scheduler.start: nothing when running, else a new interval timer whose
\* handle replaces the one in this.interval.
start ==
  IF isRunning
    THEN UNCHANGED schedVars
    ELSE /\ isRunning' = TRUE
         /\ interval' = TRUE
         /\ tickers' = tickers + 1

\* Scheduler.stop: clearInterval of the handle held, if any.
stop ==
  /\ IF interval
       THEN /\ tickers' = tickers - 1
            /\ interval' = FALSE
       ELSE UNCHANGED <<interval, tickers>>
  /\ isRunning' = FALSE

\* Queue.add after `await storage.addJob`: the delayed / waiting event, then
\* scheduler.start().
AddCont(t) ==
  /\ emitted' = IF t.arg.status \in {"delayed", "waiting"}
                  THEN emitted \cup {<<t.arg.status, t.id>>} ELSE emitted
  /\ start
  /\ mq' = Tail(mq)
  /\ UNCHANGED <<config, apiVars, ctlVars, now, storeVars, isInitialized, activeJobs,
                 completedJobIds, workers, rateVars, handlerVars, offerQ,
                 ioVars, sweepVars, nCalls>>

\* Scheduler.tick: the due pending jobs, sorted, enter the emit loop.
Tick ==
  /\ Quiet /\ tickers > 0 /\ isRunning
  /\ getPendingJobs(now) # <<>>
  /\ offerQ' = StableSort(getPendingJobs(now), "priority")
  /\ UNCHANGED <<config, apiVars, ctlVars, now, storeVars, queueVars, rateVars, handlerVars, mq,
                 ioVars, sweepVars, emitted, nCalls>>

(* ------------------------------ a Scheduler on its own ----------------- *)

\* scheduler.start() called on the object itself.
SchedStart ==
  /\ Quiet
  /\ start
  /\ UNCHANGED <<config, apiVars, ctlVars, now, storeVars, isInitialized,
                 activeJobs, completedJobIds, workers, rateVars, handlerVars,
                 loopVars, ioVars, sweepVars, emitted, nCalls>>

\* scheduler.stop() called on the object itself.
SchedStop ==
  /\ Quiet
  /\ stop
  /\ UNCHANGED <<config, apiVars, ctlVars, now, storeVars, isInitialized,
                 activeJobs, completedJobIds, workers, rateVars, handlerVars,
                 loopVars, ioVars, sweepVars, emitted, nCalls>>

\* A tick whose query is rejected, with clearInterval in the catch handler.
TickFail_Stops ==
  /\ Quiet /\ tickers > 0 /\ isRunning
  /\ emitted' = emitted \cup {<<"error", "-">>}
  /\ stop
  /\ UNCHANGED <<config, apiVars, ctlVars, now, storeVars, isInitialized,
                 activeJobs, completedJobIds, workers, rateVars, handlerVars,
                 loopVars, ioVars, sweepVars, nCalls>>

\* The interval fires and the storage given to the scheduler rejects
\* getPendingJobs (an implementation of StorageInterface other than the two
\* back-ends, which never do): tick() rejects and the catch handler emits
\* 'error' to the listener registered on the scheduler.
TickFail ==
  /\ Quiet /\ tickers > 0 /\ isRunning
  /\ emitted' = emitted \cup {<<"error", "-">>}
  /\ UNCHANGED <<config, apiVars, ctlVars, now, storeVars, queueVars,
                 rateVars, handlerVars, loopVars, ioVars, sweepVars, nCalls>>

\* One 'job-ready' emit of Scheduler.tick to a listener that only records
\* the event.
JobReady ==
  /\ offerQ # <<>>
  /\ offerQ' = Tail(offerQ)
  /\ emitted' = emitted \cup {<<"job-ready", Head(offerQ).id>>}
  /\ UNCHANGED <<config, apiVars, ctlVars, now, storeVars, queueVars,
                 rateVars, handlerVars, mq, ioVars, sweepVars, nCalls>>

(* ------------------------------ handleJobReady ------------------------- *)

\* What no step of handleJobReady writes.
HFrame == <<config, apiVars, ctlVars, now, log, dlqLog, fsOpen, restarts, isInitialized,
            schedVars, rateVars, offerQ, sweepVars, nCalls>>

\* RateLimiter.refill
refill ==
  IF now - lastRefill >= config.rateDuration
    THEN [tokens |-> config.rateMax, lastRefill |-> now]
    ELSE [tokens |-> tokens, lastRefill |-> lastRefill]

\* handleJobReady, "Mark job as processing": markProcessing, activeJobs.set,
\* storage.updateJob up to its await.  updateJob throws for an id the Map
\* does not hold: the handler's promise rejects and ERROR is emitted.
Admit(jd, q) ==
  LET j == jd.id
      job == markProcessing(jd, now)
  IN /\ activeJobs' = activeJobs \cup {j}
     /\ IF jobs[j] = NoJob
          THEN /\ pc' = [pc EXCEPT ![j] = "idle"]
               /\ hjob' = [hjob EXCEPT ![j] = NoJob]
               /\ emitted' = emitted \cup {<<"error", j>>}
               /\ mq' = q
               /\ UNCHANGED <<jobs, jobOrder, wq>>
          ELSE /\ pc' = [pc EXCEPT ![j] = "upd"]
               /\ hjob' = [hjob EXCEPT ![j] = job]
               /\ StoreWrite(job, HTask(j), q)
               /\ UNCHANGED emitted

\* One 'job-ready' emit of Scheduler.tick: handleJobReady runs up to its
\* first await.  With a rate limiter that await is consume(), whose body
\* (refill, tokens--) runs at the call; without one the job is admitted.
OfferNext ==
  /\ offerQ # <<>>
  /\ offerQ' = Tail(offerQ)
  /\ LET jd == Head(offerQ)
         j == jd.id
     IN IF \/ isShuttingDown
           \/ Cardinality(activeJobs) >= config.concurrency
           \/ j \in activeJobs
           \/ ~areDependenciesSatisfied(jd, completedJobIds)
          THEN UNCHANGED <<jobs, jobOrder, activeJobs, rateVars, pc, hjob, mq,
                           wq, emitted>>
          ELSE IF config.rateLimited
            THEN /\ lastRefill' = refill.lastRefill
                 /\ tokens' = IF refill.tokens > 0
                                THEN refill.tokens - 1 ELSE refill.tokens
                 /\ IF refill.tokens > 0
                      THEN /\ pc' = [pc EXCEPT ![j] = "rl"]
                           /\ hjob' = [hjob EXCEPT ![j] = jd]
                           /\ mq' = Append(mq, HTask(j))
                      ELSE UNCHANGED <<pc, hjob, mq>>
                 /\ UNCHANGED <<jobs, jobOrder, activeJobs, wq, emitted>>
            ELSE /\ Admit(jd, mq)
                 /\ UNCHANGED rateVars
  /\ UNCHANGED <<config, apiVars, ctlVars, now, deadLetterJobs, log, dlqLog, fsOpen, restarts,
                 isInitialized, schedVars, completedJobIds, workers, hworker,
                 hdeps, fsq, sweepVars, nCalls>>

\* After `await rateLimiter.consume()` returned true.
H_rl(j) ==
  /\ Admit(hjob[j], Tail(mq))
  /\ UNCHANGED <<deadLetterJobs, completedJobIds, workers, hworker, hdeps, fsq>>
  /\ UNCHANGED HFrame

\* After `await storage.updateJob` (processing): emit ACTIVE, sendWebhook.
H_upd(j) ==
  /\ emitted' = emitted \cup {<<"active", j>>}
  /\ pc' = [pc EXCEPT ![j] = "wh"]
  /\ mq' = Append(Tail(mq), HTask(j))
  /\ UNCHANGED <<jobs, jobOrder, deadLetterJobs, activeJobs, completedJobIds,
                 workers, hjob, hworker, hdeps, wq, fsq>>
  /\ UNCHANGED HFrame

IdleWorkers == {i \in 1..Len(workers) : workers[i] = Idle}

FirstIdle == CHOOSE i \in IdleWorkers : \A k \in IdleWorkers : i <= k

\* getAvailableWorker: an idle worker, else a new one (fork and wait for its
\* ready message), else poll every 100 ms.
H_wh(j) ==
  /\ IF IdleWorkers # {}
       THEN /\ hworker' = [hworker EXCEPT ![j] = FirstIdle]
            /\ pc' = [pc EXCEPT ![j] = "gotw"]
            /\ mq' = Append(Tail(mq), HTask(j))
       ELSE /\ pc' = [pc EXCEPT ![j] =
                        IF Len(workers) < config.concurrency
                          THEN "winit" ELSE "wpoll"]
            /\ mq' = Tail(mq)
            /\ UNCHANGED hworker
  /\ UNCHANGED <<jobs, jobOrder, deadLetterJobs, activeJobs, completedJobIds,
                 workers, hjob, hdeps, wq, fsq, emitted>>
  /\ UNCHANGED HFrame

\* handleJobFailure up to its await: markFailed, then dlq.add (the maps
\* change at the call) or storage.updateJob.  A throwing updateJob leaves
\* through the finally block and rejects the handler.
Fail(j, job, q) ==
  LET f == markFailed(job, getNextRunAt(job.attempts + 1), now)
  IN IF hasExceededMaxAttempts(f)
       THEN /\ deadLetterJobs' = [deadLetterJobs EXCEPT ![j] = f]
            /\ jobs' = [jobs EXCEPT ![j] = NoJob]
            /\ jobOrder' = MapDeleteOrder(jobOrder, j)
            /\ pc' = [pc EXCEPT ![j] = "f_dlq"]
            /\ hjob' = [hjob EXCEPT ![j] = f]
            /\ IF IsFile
                 THEN /\ fsq' = fsq \cup {[op |-> "dlqAppend",
                                           lines |-> <<Serialize(f)>>,
                                           task |-> HTask(j)]}
                      /\ mq' = q
                 ELSE /\ fsq' = fsq
                      /\ mq' = Append(q, HTask(j))
            /\ UNCHANGED <<wq, activeJobs, emitted>>
       ELSE IF jobs[j] = NoJob
         THEN /\ activeJobs' = activeJobs \ {j}
              /\ pc' = [pc EXCEPT ![j] = "idle"]
              /\ hjob' = [hjob EXCEPT ![j] = NoJob]
              /\ emitted' = emitted \cup {<<"error", j>>}
              /\ mq' = q
              /\ UNCHANGED <<jobs, jobOrder, deadLetterJobs, wq, fsq>>
         ELSE /\ StoreWrite(f, HTask(j), q)
              /\ pc' = [pc EXCEPT ![j] = "f_upd"]
              /\ hjob' = [hjob EXCEPT ![j] = f]
              /\ UNCHANGED <<deadLetterJobs, fsq, activeJobs, emitted>>

\* worker.execute up to its promise: a worker whose child has exited
\* (isReady is false) or that is busy throws, which the catch block hands to
\* handleJobFailure.
H_gotw(j) ==
  /\ IF wstate[hworker[j]] # "ready" \/ workers[hworker[j]] # Idle
       THEN /\ Fail(j, hjob[j], Tail(mq))
            /\ UNCHANGED workers
       ELSE /\ workers' = [workers EXCEPT ![hworker[j]] = j]
            /\ pc' = [pc EXCEPT ![j] = "exec"]
            /\ mq' = Tail(mq)
            /\ UNCHANGED <<jobs, jobOrder, deadLetterJobs, activeJobs, hjob,
                           wq, fsq, emitted>>
  /\ UNCHANGED <<completedJobIds, hworker, hdeps>>
  /\ UNCHANGED HFrame

\* result.success: markCompleted, storage.updateJob up to its await.
H_res_ok(j) ==
  LET job == markCompleted(hjob[j], now)
  IN /\ IF jobs[j] = NoJob
          THEN Fail(j, job, Tail(mq))
          ELSE /\ StoreWrite(job, HTask(j), Tail(mq))
               /\ pc' = [pc EXCEPT ![j] = "c_upd"]
               /\ hjob' = [hjob EXCEPT ![j] = job]
               /\ UNCHANGED <<deadLetterJobs, fsq, activeJobs, emitted>>
     /\ UNCHANGED <<completedJobIds, workers, hworker, hdeps>>
     /\ UNCHANGED HFrame

\* !result.success
H_res_fail(j) ==
  /\ Fail(j, hjob[j], Tail(mq))
  /\ UNCHANGED <<completedJobIds, workers, hworker, hdeps>>
  /\ UNCHANGED HFrame

\* After `await storage.updateJob` (completed): completedJobIds.add, then
\* checkDependentJobs up to `await getAllJobs()`.  The loop's test on the
\* snapshot (waiting, dependsOn includes the id) is applied here.
H_c_upd(j) ==
  /\ completedJobIds' = completedJobIds \cup {j}
  /\ hdeps' = [hdeps EXCEPT ![j] =
                 SelectSeq(getAllJobs,
                           LAMBDA d : d.status = "waiting" /\ j \in d.dependsOn)]
  /\ pc' = [pc EXCEPT ![j] = "dep"]
  /\ mq' = Append(Tail(mq), HTask(j))
  /\ UNCHANGED <<jobs, jobOrder, deadLetterJobs, activeJobs, workers, hjob,
                 hworker, wq, fsq, emitted>>
  /\ UNCHANGED HFrame

\* The first snapshot entry from position i on whose dependencies are all
\* completed (Len + 1 when there is none).
RECURSIVE NextSatisfied(_, _)
NextSatisfied(seq, i) ==
  IF i > Len(seq) THEN i
  ELSE IF areDependenciesSatisfied(seq[i], completedJobIds) THEN i
  ELSE NextSatisfied(seq, i + 1)

\* checkDependentJobs' loop: up to the next `await storage.updateJob`, or to
\* its end.
H_dep(j) ==
  LET i == NextSatisfied(hdeps[j], 1)
  IN /\ IF i > Len(hdeps[j])
          THEN /\ hdeps' = [hdeps EXCEPT ![j] = <<>>]
               /\ pc' = [pc EXCEPT ![j] = "dep_done"]
               /\ mq' = Append(Tail(mq), HTask(j))
               /\ UNCHANGED <<jobs, jobOrder, deadLetterJobs, activeJobs, hjob,
                              wq, fsq, emitted>>
          ELSE /\ hdeps' = [hdeps EXCEPT ![j] = SubSeq(hdeps[j], i + 1, Len(hdeps[j]))]
               /\ IF jobs[hdeps[j][i].id] = NoJob
                    THEN Fail(j, hjob[j], Tail(mq))
                    ELSE /\ StoreWrite([hdeps[j][i] EXCEPT !.status = "pending"],
                                       HTask(j), Tail(mq))
                         /\ UNCHANGED <<deadLetterJobs, activeJobs, pc, hjob,
                                        fsq, emitted>>
     /\ UNCHANGED <<completedJobIds, workers, hworker>>
     /\ UNCHANGED HFrame

\* After checkDependentJobs: emit COMPLETED, sendWebhook.
H_dep_done(j) ==
  /\ emitted' = emitted \cup {<<"completed", j>>}
  /\ pc' = [pc EXCEPT ![j] = "fin"]
  /\ mq' = Append(Tail(mq), HTask(j))
  /\ UNCHANGED <<jobs, jobOrder, deadLetterJobs, activeJobs, completedJobIds,
                 workers, hjob, hworker, hdeps, wq, fsq>>
  /\ UNCHANGED HFrame

\* FileStore.moveToDeadLetter after `await appendToDLQ`: rewriteJobFile up to
\* its writeFile (none when the Map is empty).  MemoryStore has returned.
H_f_dlq(j) ==
  LET lines == [i \in 1..Len(jobOrder) |-> Serialize(jobs[jobOrder[i]])]
  IN /\ pc' = [pc EXCEPT ![j] = "f_rw"]
     /\ IF IsFile /\ Len(lines) > 0
          THEN /\ fsq' = fsq \cup {[op |-> "rewriteMain", lines |-> lines,
                                    task |-> HTask(j)]}
               /\ mq' = Tail(mq)
          ELSE /\ fsq' = fsq
               /\ mq' = Append(Tail(mq), HTask(j))
     /\ UNCHANGED <<jobs, jobOrder, deadLetterJobs, activeJobs, completedJobIds,
                    workers, hjob, hworker, hdeps, wq, emitted>>
     /\ UNCHANGED HFrame

\* After `await dlq.add`: emit FAILED, sendWebhook.
H_f_rw(j) ==
  /\ emitted' = emitted \cup {<<"failed", j>>}
  /\ pc' = [pc EXCEPT ![j] = "fin"]
  /\ mq' = Append(Tail(mq), HTask(j))
  /\ UNCHANGED <<jobs, jobOrder, deadLetterJobs, activeJobs, completedJobIds,
                 workers, hjob, hworker, hdeps, wq, fsq>>
  /\ UNCHANGED HFrame

\* finally: activeJobs.delete(job.id)
H_fin(j) ==
  /\ activeJobs' = activeJobs \ {j}
  /\ pc' = [pc EXCEPT ![j] = "idle"]
  /\ hjob' = [hjob EXCEPT ![j] = NoJob]
  /\ hworker' = [hworker EXCEPT ![j] = 0]
  /\ mq' = Tail(mq)
  /\ UNCHANGED <<jobs, jobOrder, deadLetterJobs, completedJobIds, workers,
                 hdeps, wq, fsq, emitted>>
  /\ UNCHANGED HFrame

\* The handler of job j resumes where it was parked.
Resume(j) ==
  CASE pc[j] = "rl" -> H_rl(j)
    [] pc[j] = "upd" -> H_upd(j)
    [] pc[j] = "wh" -> H_wh(j)
    [] pc[j] = "gotw" -> H_gotw(j)
    [] pc[j] = "res_ok" -> H_res_ok(j)
    [] pc[j] = "res_fail" -> H_res_fail(j)
    [] pc[j] = "c_upd" -> H_c_upd(j)
    [] pc[j] = "dep" -> H_dep(j)
    [] pc[j] = "dep_done" -> H_dep_done(j)
    [] pc[j] = "f_dlq" -> H_f_dlq(j)
    [] pc[j] = "f_rw" -> H_f_rw(j)
    [] pc[j] \in {"f_upd", "fin"} -> H_fin(j)

(* ------------------------ completions (macrotasks) --------------------- *)

\* The main append stream finishes its write: the lines are in the file and
\* every callback of the write runs.  The chunks buffered meanwhile go out
\* together as the next write (fs.WriteStream implements _writev).
WriteDone ==
  /\ Quiet /\ wq.inflight # <<>>
  /\ log' = log \o [i \in 1..Len(wq.inflight) |-> wq.inflight[i].line]
  /\ mq' = [i \in 1..Len(wq.inflight) |-> wq.inflight[i].task]
  /\ wq' = [inflight |-> wq.buffered, buffered |-> <<>>]
  /\ UNCHANGED <<config, apiVars, ctlVars, now, jobs, jobOrder, deadLetterJobs, dlqLog, fsOpen,
                 restarts, queueVars, rateVars, handlerVars, offerQ, fsq,
                 sweepVars, emitted, nCalls>>

\* appendToDLQ's write or an fs.writeFile finishes.
FsDone(o) ==
  /\ Quiet /\ o \in fsq
  /\ dlqLog' = CASE o.op = "dlqAppend" -> dlqLog \o o.lines
                 [] o.op = "rewriteDlq" -> o.lines
                 [] OTHER -> dlqLog
  /\ log' = IF o.op = "rewriteMain" THEN o.lines ELSE log
  /\ fsq' = fsq \ {o}
  /\ mq' = <<o.task>>
  /\ UNCHANGED <<config, apiVars, ctlVars, now, jobs, jobOrder, deadLetterJobs, fsOpen, restarts,
                 queueVars, rateVars, handlerVars, offerQ, wq, sweepVars,
                 emitted, nCalls>>

\* Worker.initialize resolves (the child's ready message, then the send
\* callback): workers.push(worker), and the handler holds the new worker.
WorkerReady(j) ==
  /\ Quiet /\ pc[j] = "winit"
  /\ workers' = Append(workers, Idle)
  /\ wstate' = Append(wstate, "ready")
  /\ hworker' = [hworker EXCEPT ![j] = Len(workers) + 1]
  /\ pc' = [pc EXCEPT ![j] = "gotw"]
  /\ mq' = <<HTask(j)>>
  /\ UNCHANGED <<config, apiVars, isShuttingDown, sdpc, paused, ret, now, storeVars, isInitialized, schedVars, activeJobs,
                 completedJobIds, rateVars, hjob, hdeps, offerQ, ioVars,
                 sweepVars, emitted, nCalls>>

\* getAvailableWorker's 100 ms poll finds an idle worker.
PollTimer(j) ==
  /\ Quiet /\ pc[j] = "wpoll"
  /\ IdleWorkers # {}
  /\ hworker' = [hworker EXCEPT ![j] = FirstIdle]
  /\ pc' = [pc EXCEPT ![j] = "gotw"]
  /\ mq' = <<HTask(j)>>
  /\ UNCHANGED <<config, apiVars, ctlVars, now, storeVars, queueVars, rateVars, hjob, hdeps,
                 offerQ, ioVars, sweepVars, emitted, nCalls>>

\* The child's result message: currentJobId = null, execute resolves.
WorkerReply(j, success) ==
  /\ Quiet /\ pc[j] = "exec"
  /\ workers' = [workers EXCEPT ![hworker[j]] = Idle]
  /\ pc' = [pc EXCEPT ![j] = IF success THEN "res_ok" ELSE "res_fail"]
  /\ mq' = <<HTask(j)>>
  /\ UNCHANGED <<config, apiVars, ctlVars, now, storeVars, isInitialized, schedVars, activeJobs,
                 completedJobIds, rateVars, hjob, hworker, hdeps, offerQ,
                 ioVars, sweepVars, emitted, nCalls>>

\* The numbers a processor passes to updateProgress.
ProgressInputs == {0 - 5, 50, 150}

\* The processor of job j calls updateProgress(n) of the facade the child
\* gave it: the child sends {type: 'progress', jobId, progress}.  The
\* parent's listeners on the child are the ready handler of initialize and
\* the message handler of execute, which acts on type 'result' only.
UpdateProgress(j, n) ==
  /\ Quiet /\ pc[j] = "exec"
  /\ progressSent' = [progressSent EXCEPT ![j] = <<n>>]
  /\ UNCHANGED <<config, dpc, dsnap, nDrained, repeatingJobs, ctlVars, now,
                 storeVars, rtVars>>

(* ------------------------------ checkStalledJobs ----------------------- *)

STask == Task("s", "-", NoJob)

\* The stalled checker's interval fires: checkStalledJobs up to
\* `await getAllJobs()`.  The loop's test on the snapshot (processing) is
\* applied here.
SweepTimer ==
  /\ Quiet /\ isInitialized /\ spc = "idle"
  /\ ~isShuttingDown
  /\ \E i \in 1..Len(jobOrder) : jobs[jobOrder[i]].status = "processing"
  /\ sweepQ' = SelectSeq(getAllJobs, LAMBDA job : job.status = "processing")
  /\ spc' = "loop"
  /\ mq' = <<STask>>
  /\ UNCHANGED <<config, apiVars, ctlVars, now, storeVars, queueVars, rateVars, handlerVars,
                 offerQ, ioVars, emitted, nCalls>>

\* The first snapshot entry from position i on that is stalled now.
RECURSIVE NextStalled(_, _)
NextStalled(seq, i) ==
  IF i > Len(seq) THEN i
  ELSE IF isStalled(seq[i], config.stalledInterval, now) THEN i
  ELSE NextStalled(seq, i + 1)

\* checkStalledJobs' loop: up to the next `await storage.updateJob` (an
\* absent id makes it throw and ends the sweep), then the STALLED event.
SweepCont ==
  /\ IF spc = "loop"
       THEN LET i == NextStalled(sweepQ, 1)
            IN IF i > Len(sweepQ) \/ jobs[sweepQ[i].id] = NoJob
                 THEN /\ spc' = "idle"
                      /\ sweepQ' = <<>>
                      /\ mq' = Tail(mq)
                      /\ UNCHANGED <<jobs, jobOrder, wq, emitted>>
                 ELSE /\ StoreWrite(markStalled(sweepQ[i], now), STask, Tail(mq))
                      /\ sweepQ' = SubSeq(sweepQ, i, Len(sweepQ))
                      /\ spc' = "upd"
                      /\ UNCHANGED emitted
       ELSE /\ emitted' = emitted \cup {<<"stalled", Head(sweepQ).id>>}
            /\ sweepQ' = Tail(sweepQ)
            /\ spc' = "loop"
            /\ mq' = Append(Tail(mq), STask)
            /\ UNCHANGED <<jobs, jobOrder, wq>>
  /\ UNCHANGED <<config, apiVars, ctlVars, now, deadLetterJobs, log, dlqLog, fsOpen, restarts,
                 queueVars, rateVars, handlerVars, offerQ, fsq, nCalls>>

(* ------------------------------ reprocessFailed ------------------------ *)

\* Queue.reprocessFailed up to removeFromDeadLetter's await: dlq.get finds
\* the record, the DLQ Map drops it, the file back-end rewrites the DLQ file.
Reprocess(id) ==
  /\ Quiet /\ isInitialized
  /\ nCalls < MaxCalls
  /\ deadLetterJobs[id] # NoJob
  /\ deadLetterJobs' = [deadLetterJobs EXCEPT ![id] = NoJob]
  /\ nCalls' = nCalls + 1
  /\ IF IsFile
       THEN /\ fsq' = fsq \cup {[op |-> "rewriteDlq",
                                 lines |-> rewriteDlqFile(deadLetterJobs'),
                                 task |-> Task("rp", id, deadLetterJobs[id])]}
            /\ mq' = mq
       ELSE /\ fsq' = fsq
            /\ mq' = <<Task("rp", id, deadLetterJobs[id])>>
  /\ UNCHANGED <<config, apiVars, ctlVars, now, jobs, jobOrder, log, dlqLog, fsOpen, restarts,
                 queueVars, rateVars, handlerVars, offerQ, wq, sweepVars,
                 emitted>>

\* dlq.remove after the await: job.reset(), then storage.addJob.
ReprocessCont(t) ==
  /\ StoreWrite(reset(t.arg, now), Task("nop", t.id, NoJob), Tail(mq))
  /\ UNCHANGED <<config, apiVars, ctlVars, now, deadLetterJobs, log, dlqLog, fsOpen, restarts,
                 queueVars, rateVars, handlerVars, offerQ, fsq, sweepVars,
                 emitted, nCalls>>

\* reprocessFailed after `await storage.addJob`: return true.
Return ==
  /\ mq' = Tail(mq)
  /\ ret' = [op |-> "reprocessFailed", id |-> Head(mq).id, value |-> "true"]
  /\ UNCHANGED <<config, apiVars, isShuttingDown, sdpc, wstate, paused, now, storeVars,
                 queueVars, rateVars, handlerVars, offerQ, ioVars, sweepVars,
                 emitted, nCalls>>

\* reprocessFailed of an id dlq.get does not find: return false.
ReprocessMiss(id) ==
  /\ Quiet /\ isInitialized
  /\ nCalls < MaxCalls
  /\ deadLetterJobs[id] = NoJob
  /\ nCalls' = nCalls + 1
  /\ ret' = [op |-> "reprocessFailed", id |-> id, value |-> "false"]
  /\ UNCHANGED <<config, apiVars, isShuttingDown, sdpc, wstate, paused, now, storeVars,
                 queueVars, rateVars, handlerVars, loopVars, ioVars, sweepVars,
                 emitted>>

\* Queue.add while isShuttingDown: throws before a Job is built.
AddRejected(id) ==
  /\ Quiet /\ isInitialized
  /\ isShuttingDown
  /\ nCalls < MaxCalls
  /\ nCalls' = nCalls + 1
  /\ ret' = [op |-> "add", id |-> id, value |-> "rejected"]
  /\ UNCHANGED <<config, apiVars, isShuttingDown, sdpc, wstate, paused, now, storeVars,
                 queueVars, rateVars, handlerVars, loopVars, ioVars, sweepVars,
                 emitted>>

(* ------------------------------ repeating jobs ------------------------ *)

\* JavaScript truthiness of an optional number: undefined and 0 are falsy.
Truthy(n) == n # Undefined /\ n # 0

\* scheduleRepeat: `repeatConfig.limit && job.repeatCount >= limit`.
LimitReached(cfg, repeatCount) ==
  Truthy(cfg.limit) /\ repeatCount >= cfg.limit

\* The pattern that fires every minute; the clock unit of a model with cron
\* patterns is the minute.
EveryMinute == "* * * * *"

\* CronParser.getNextRunTime: the next instant after `from` that the
\* pattern names (CronExpressionParser.parse(...).next()).
getNextRunTime(pattern, from) == from + 1

\* CronExpressionParser.parse throws, which getNextRunTime rethrows as
\* `Invalid cron pattern`; scheduleRepeat reaches the parser only past its
\* test of the limit.
scheduleRepeatThrows(job) ==
  /\ job.repeatConfig # NoRepeat
  /\ ~LimitReached(job.repeatConfig, job.repeatCount)
  /\ job.repeatConfig.pattern \notin {"", EveryMinute}

\* Queue.scheduleRepeat(job) at time t: the timers it arms (none, or one
\* that holds the Job and the instant of the next occurrence).
scheduleRepeat(job, t) ==
  LET cfg == job.repeatConfig
      next == IF cfg.pattern # "" THEN getNextRunTime(cfg.pattern, t)
              ELSE t + cfg.every
      nextRunAt == IF cfg.startDate # Undefined /\ next < cfg.startDate
                     THEN cfg.startDate ELSE next
  IN IF cfg = NoRepeat THEN {}
     ELSE IF LimitReached(cfg, job.repeatCount) THEN {}
     ELSE IF cfg.pattern = "" /\ ~Truthy(cfg.every) THEN {}
     ELSE IF cfg.endDate # Undefined /\ nextRunAt > cfg.endDate THEN {}
     ELSE {[job |-> job, nextRunAt |-> nextRunAt]}

\* Queue.add(payload, {repeat: cfg}) up to `await storage.addJob`.
AddRepeat(id, cfg) ==
  /\ Quiet /\ isInitialized
  /\ ~isShuttingDown
  /\ nCalls < MaxCalls
  /\ id \notin KnownIds
  /\ LET job == [NewJob(id, config.maxAttempts, 0, {}, 0, now)
                   EXCEPT !.repeatConfig = cfg]
     IN StoreWrite(job, Task("addr", id, job), mq)
  /\ nCalls' = nCalls + 1
  /\ UNCHANGED <<config, apiVars, ctlVars, now, deadLetterJobs, log, dlqLog,
                 fsOpen, restarts, queueVars, rateVars, handlerVars, offerQ,
                 fsq, sweepVars, emitted>>

\* Queue.add after `await storage.addJob`: scheduleRepeat(job), whose throw
\* rejects add, then scheduler.start().
AddRepeatCont(t) ==
  /\ IF scheduleRepeatThrows(t.arg)
       THEN /\ ret' = [op |-> "add", id |-> t.id, value |-> "rejected"]
            /\ UNCHANGED <<repeatingJobs, schedVars>>
       ELSE /\ repeatingJobs' = repeatingJobs \cup scheduleRepeat(t.arg, now)
            /\ start
            /\ UNCHANGED ret
  /\ mq' = Tail(mq)
  /\ UNCHANGED <<config, isShuttingDown, sdpc, wstate, paused, dpc, dsnap,
                 nDrained, progressSent, now, storeVars,
                 isInitialized, activeJobs, completedJobIds, workers,
                 rateVars, handlerVars, offerQ, ioVars, sweepVars, emitted,
                 nCalls>>

\* A recurrence timer fires (not before its instant): createRepeatInstance,
\* nextRunAt of the occurrence, storage.addJob up to its await.
RepeatTimer(tm) ==
  /\ Quiet
  /\ tm \in repeatingJobs
  /\ now >= tm.nextRunAt
  /\ repeatingJobs' = repeatingJobs \ {tm}
  /\ LET nextJob == [createRepeatInstance(tm.job)
                       EXCEPT !.nextRunAt = tm.nextRunAt]
     IN StoreWrite(nextJob, Task("rep", nextJob.id, nextJob), mq)
  /\ UNCHANGED <<config, ctlVars, dpc, dsnap, nDrained, progressSent, now, deadLetterJobs,
                 log, dlqLog, fsOpen, restarts, queueVars, rateVars,
                 handlerVars, offerQ, fsq, sweepVars, emitted, nCalls>>

\* The timer callback after `await storage.addJob`: scheduleRepeat(nextJob).
RepeatCont(t) ==
  /\ repeatingJobs' = repeatingJobs \cup scheduleRepeat(t.arg, now)
  /\ mq' = Tail(mq)
  /\ UNCHANGED <<config, ctlVars, dpc, dsnap, nDrained, progressSent, now, storeVars,
                 queueVars, rateVars, handlerVars, offerQ, ioVars, sweepVars,
                 emitted, nCalls>>

(* ------------------------------ clean --------------------------------- *)

\* clean's test on a snapshot record, with the `now` read before the loop.
Cleanable(job, t, maxAge) ==
  job.status = "completed" /\ t - job.updatedAt > maxAge

\* The first snapshot entry from position i on that clean takes.
RECURSIVE NextCleanable(_, _, _, _)
NextCleanable(seq, i, t, maxAge) ==
  IF i > Len(seq) THEN i
  ELSE IF Cleanable(seq[i], t, maxAge) THEN i
  ELSE NextCleanable(seq, i + 1, t, maxAge)

\* Queue.clean(maxAge) up to `await storage.getAllJobs()`; the call's
\* locals travel with its continuation.
Q_clean(maxAge) ==
  /\ Quiet /\ isInitialized
  /\ nCalls < MaxCalls
  /\ nCalls' = nCalls + 1
  /\ ret' = NoRet
  /\ mq' = <<Task("cl", "-", [allJobs |-> getAllJobs, now |-> now,
                              maxAge |-> maxAge, cleaned |-> 0])>>
  /\ UNCHANGED <<config, apiVars, isShuttingDown, sdpc, wstate, paused, now,
                 storeVars, queueVars, rateVars, handlerVars, offerQ, ioVars,
                 sweepVars, emitted>>

\* clean's loop: after `await storage.updateJob` of the job t.id (if any),
\* completedJobIds.delete and cleaned++; then up to the next job it takes:
\* status = FAILED and `await storage.updateJob` (an absent id makes it
\* throw); at the end of the snapshot, return cleaned.
CleanCont(t) ==
  LET a == t.arg
      n == IF t.id = "-" THEN a.cleaned ELSE a.cleaned + 1
      i == NextCleanable(a.allJobs, 1, a.now, a.maxAge)
  IN /\ completedJobIds' = completedJobIds \ {t.id}
     /\ IF i > Len(a.allJobs)
          THEN /\ ret' = [op |-> "clean", id |-> "-", value |-> n]
               /\ mq' = Tail(mq)
               /\ UNCHANGED <<jobs, jobOrder, wq>>
          ELSE IF jobs[a.allJobs[i].id] = NoJob
            THEN /\ ret' = [op |-> "clean", id |-> "-", value |-> "threw"]
                 /\ mq' = Tail(mq)
                 /\ UNCHANGED <<jobs, jobOrder, wq>>
            ELSE /\ StoreWrite([a.allJobs[i] EXCEPT !.status = "failed"],
                               Task("cl", a.allJobs[i].id,
                                    [a EXCEPT !.allJobs =
                                                SubSeq(a.allJobs, i + 1,
                                                       Len(a.allJobs)),
                                              !.cleaned = n]),
                               Tail(mq))
                 /\ ret' = ret
     /\ UNCHANGED <<config, apiVars, isShuttingDown, sdpc, wstate, paused, now,
                    deadLetterJobs, log, dlqLog, fsOpen, restarts,
                    isInitialized, schedVars, activeJobs, workers, rateVars,
                    handlerVars, offerQ, fsq, sweepVars, emitted, nCalls>>

(* ------------------------------ removeJob ----------------------------- *)

\* Queue.removeJob up to `await storage.getJob`: an active job is refused
\* at once.
Q_removeJob(id) ==
  /\ Quiet /\ isInitialized
  /\ nCalls < MaxCalls
  /\ nCalls' = nCalls + 1
  /\ IF id \in activeJobs
       THEN /\ ret' = [op |-> "removeJob", id |-> id, value |-> "false"]
            /\ mq' = mq
       ELSE /\ ret' = NoRet
            /\ mq' = <<Task("rm", id, jobs[id])>>
  /\ UNCHANGED <<config, apiVars, isShuttingDown, sdpc, wstate, paused, now,
                 storeVars, queueVars, rateVars, handlerVars, offerQ, ioVars,
                 sweepVars, emitted>>

\* removeJob after the await: no job, return false; else status = FAILED
\* and storage.updateJob up to its await.
RemoveCont(t) ==
  /\ IF t.arg = NoJob \/ jobs[t.id] = NoJob
       THEN /\ ret' = [op |-> "removeJob", id |-> t.id,
                       value |-> IF t.arg = NoJob THEN "false" ELSE "threw"]
            /\ mq' = Tail(mq)
            /\ UNCHANGED <<jobs, jobOrder, wq>>
       ELSE /\ StoreWrite([t.arg EXCEPT !.status = "failed"],
                          Task("rmret", t.id, NoJob), Tail(mq))
            /\ ret' = ret
  /\ UNCHANGED <<config, apiVars, isShuttingDown, sdpc, wstate, paused, now,
                 deadLetterJobs, log, dlqLog, fsOpen, restarts, queueVars,
                 rateVars, handlerVars, offerQ, fsq, sweepVars, emitted,
                 nCalls>>

\* removeJob after `await storage.updateJob`: return true.
RemoveReturn ==
  /\ mq' = Tail(mq)
  /\ ret' = [op |-> "removeJob", id |-> Head(mq).id, value |-> "true"]
  /\ UNCHANGED <<config, apiVars, isShuttingDown, sdpc, wstate, paused, now,
                 storeVars, queueVars, rateVars, handlerVars, offerQ, ioVars,
                 sweepVars, emitted, nCalls>>

(* ------------------------------ drain --------------------------------- *)

\* drain's filter over a getAllJobs snapshot: pendingJobs.length === 0.
NoBacklog(map) ==
  \A id \in JobIds :
    map[id] = NoJob \/ map[id].status \notin {"pending", "waiting", "delayed"}

\* An exit test that does not look at activeJobs.
DrainDone_SnapshotOnly == dsnap

\* The exit test of drain's loop, on the snapshot taken before the await
\* and the activeJobs of the moment.
DrainDone == dsnap /\ activeJobs = {}

\* One turn of drain's loop up to its await: storage.getAllJobs() copies
\* the main store.
DrainSnapshot ==
  /\ dsnap' = NoBacklog(jobs)
  /\ dpc' = "check"
  /\ mq' = <<Task("d", "-", NoJob)>>

\* Queue.drain is called (no other drain() call is pending).
Q_drain ==
  /\ Quiet /\ isInitialized
  /\ nCalls < MaxCalls
  /\ dpc = "idle"
  /\ DrainSnapshot
  /\ nCalls' = nCalls + 1
  /\ UNCHANGED <<config, ctlVars, nDrained, progressSent, repeatingJobs, now, storeVars, queueVars,
                 rateVars, handlerVars, offerQ, ioVars, sweepVars, emitted>>

\* drain after `await storage.getAllJobs()`: leave the loop and emit
\* DRAINED, or sleep 100 ms.
DrainCont ==
  /\ mq' = Tail(mq)
  /\ IF DrainDone
       THEN /\ dpc' = "idle"
            /\ nDrained' = nDrained + 1
            /\ emitted' = emitted \cup {<<"drained", "-">>}
       ELSE /\ dpc' = "sleep"
            /\ UNCHANGED <<nDrained, emitted>>
  /\ UNCHANGED <<config, ctlVars, dsnap, repeatingJobs, progressSent, now, storeVars, queueVars, rateVars,
                 handlerVars, offerQ, ioVars, sweepVars, nCalls>>

\* The 100 ms timer of drain's loop fires: the next turn starts.
DrainTimer ==
  /\ Quiet /\ dpc = "sleep"
  /\ DrainSnapshot
  /\ UNCHANGED <<config, ctlVars, nDrained, progressSent, repeatingJobs, now, storeVars, queueVars,
                 rateVars, handlerVars, offerQ, ioVars, sweepVars, emitted,
                 nCalls>>

\* The head of the microtask queue runs.
Micro ==
  /\ mq # <<>> /\ offerQ = <<>>
  /\ LET t == Head(mq)
     IN CASE t.k = "h" -> Resume(t.id)
          [] t.k = "add" -> AddCont(t)
          [] t.k = "rp" -> ReprocessCont(t)
          [] t.k = "s" -> SweepCont
          [] t.k = "nop" -> Return
          [] t.k = "d" -> DrainCont
          [] t.k = "cl" -> CleanCont(t)
          [] t.k = "addr" -> AddRepeatCont(t)
          [] t.k = "rep" -> RepeatCont(t)
          [] t.k = "rm" -> RemoveCont(t)
          [] t.k = "rmret" -> RemoveReturn

(* ------------------------------ pause / resume ------------------------- *)

\* Queue.pause: scheduler.stop().
Q_pause ==
  /\ Quiet
  /\ stop
  /\ paused' = TRUE
  /\ UNCHANGED <<config, apiVars, isShuttingDown, sdpc, wstate, ret, now, storeVars,
                 isInitialized, activeJobs, completedJobIds, workers, rateVars,
                 handlerVars, loopVars, ioVars, sweepVars, emitted, nCalls>>

\* Queue.resume: scheduler.start() unless shutting down.
Q_resume ==
  /\ Quiet
  /\ IF isShuttingDown THEN UNCHANGED schedVars ELSE start
  /\ paused' = FALSE
  /\ UNCHANGED <<config, apiVars, isShuttingDown, sdpc, wstate, ret, now, storeVars,
                 isInitialized, activeJobs, completedJobIds, workers, rateVars,
                 handlerVars, loopVars, ioVars, sweepVars, emitted, nCalls>>

(* ------------------------------ worker faults -------------------------- *)

\* The child process of the worker running job j exits: execute's
\* exitHandler clears currentJobId and isReady and resolves {success: false}.
\* The Worker object stays in Queue.workers.
WorkerCrash(j) ==
  /\ Quiet /\ pc[j] = "exec"
  /\ wstate[hworker[j]] = "ready"
  /\ workers' = [workers EXCEPT ![hworker[j]] = Idle]
  /\ wstate' = [wstate EXCEPT ![hworker[j]] = "dead"]
  /\ pc' = [pc EXCEPT ![j] = "res_fail"]
  /\ mq' = <<HTask(j)>>
  /\ UNCHANGED <<config, apiVars, isShuttingDown, sdpc, paused, ret, now, storeVars,
                 isInitialized, schedVars, activeJobs, completedJobIds,
                 rateVars, hjob, hworker, hdeps, offerQ, ioVars, sweepVars,
                 emitted, nCalls>>

\* worker.initialize rejects (timeout, or the child exits before its ready
\* message): getAvailableWorker rejects outside handleJobReady's try block,
\* the handler's promise rejects and the constructor's catch emits ERROR.
WorkerInitFail(j) ==
  /\ Quiet /\ pc[j] = "winit"
  /\ pc' = [pc EXCEPT ![j] = "idle"]
  /\ hjob' = [hjob EXCEPT ![j] = NoJob]
  /\ emitted' = emitted \cup {<<"error", j>>}
  /\ UNCHANGED <<config, apiVars, ctlVars, now, storeVars, queueVars, rateVars, hworker,
                 hdeps, loopVars, ioVars, sweepVars, nCalls>>

(* ------------------------------ shutdown ------------------------------- *)

\* A shutdown that does not wait.
ActiveJobsDrained_NoWait == TRUE

\* The test of shutdown's wait loop.
ActiveJobsDrained == activeJobs = {}

\* workers.map(worker => worker.terminate()): kill() reaches a child that is
\* alive; a child that has exited already emits no second 'exit'.
terminate(w) == IF w = "ready" THEN "killed" ELSE w

\* Queue.shutdown up to its first await: a repeated call returns at once;
\* the first one sets isShuttingDown, stops the scheduler and the stalled
\* checker, and waits for activeJobs to empty before it terminates the
\* workers.
Shutdown ==
  /\ Quiet
  /\ IF isShuttingDown
       THEN /\ ret' = [op |-> "shutdown", id |-> "-", value |-> "returned"]
            /\ UNCHANGED <<isShuttingDown, sdpc, wstate, schedVars,
                           repeatingJobs>>
       ELSE /\ isShuttingDown' = TRUE
            /\ stop
            /\ repeatingJobs' = {}
            /\ sdpc' = IF ActiveJobsDrained THEN "term" ELSE "wait"
            /\ wstate' = IF ActiveJobsDrained
                           THEN [i \in 1..Len(wstate) |-> terminate(wstate[i])]
                           ELSE wstate
            /\ UNCHANGED ret
  /\ UNCHANGED <<config, dpc, dsnap, nDrained, progressSent, paused, now, storeVars,
                 isInitialized, activeJobs, completedJobIds, workers,
                 rateVars, handlerVars, loopVars, ioVars, sweepVars, emitted,
                 nCalls>>

\* The wait loop's 100 ms timer finds activeJobs empty: terminate all workers.
ShutdownPoll ==
  /\ Quiet /\ sdpc = "wait"
  /\ ActiveJobsDrained
  /\ sdpc' = "term"
  /\ wstate' = [i \in 1..Len(wstate) |-> terminate(wstate[i])]
  /\ UNCHANGED <<config, apiVars, isShuttingDown, paused, ret, now, storeVars,
                 queueVars, rateVars, handlerVars, loopVars, ioVars, sweepVars,
                 emitted, nCalls>>

\* Every killed child has emitted 'exit': Promise.all resolves and
\* storage.close() is called.
WorkersExited ==
  /\ Quiet /\ sdpc = "term"
  /\ \A i \in 1..Len(wstate) : wstate[i] \in {"killed", "gone"}
  /\ wstate' = [i \in 1..Len(wstate) |-> "gone"]
  /\ sdpc' = "close"
  /\ UNCHANGED <<config, apiVars, isShuttingDown, paused, ret, now, storeVars,
                 queueVars, rateVars, handlerVars, loopVars, ioVars, sweepVars,
                 emitted, nCalls>>

\* storage.close: the append streams end once what they hold is written.
StorageClosed ==
  /\ Quiet /\ sdpc = "close"
  /\ wq.inflight = <<>>
  /\ fsOpen' = IF IsFile THEN FALSE ELSE fsOpen
  /\ sdpc' = "done"
  /\ UNCHANGED <<config, apiVars, isShuttingDown, wstate, paused, ret, now, jobs,
                 jobOrder, deadLetterJobs, log, dlqLog, restarts, rtVars>>

(* ------------------------------ the process ---------------------------- *)

\* The process dies at any point and a new one is started over the same
\* files: new Queue(config), process(fn), and the first API call runs
\* Queue.initialize.  What was in memory is gone, what reached the files is
\* loaded.
Restart ==
  /\ IsFile /\ isInitialized /\ restarts < MaxRestarts
  /\ StorageInitialize
  /\ restarts' = restarts + 1
  /\ isInitialized' = TRUE
  /\ isRunning' = FALSE /\ interval' = FALSE /\ tickers' = 0
  /\ activeJobs' = {}
  /\ completedJobIds' = {id \in JobIds : jobs'[id].status = "completed"}
  /\ workers' = <<>>
  /\ tokens' = config.rateMax
  /\ lastRefill' = now
  /\ pc' = [id \in JobIds |-> "idle"]
  /\ hjob' = [id \in JobIds |-> NoJob]
  /\ hworker' = [id \in JobIds |-> 0]
  /\ hdeps' = [id \in JobIds |-> <<>>]
  /\ mq' = <<>> /\ offerQ' = <<>>
  /\ wq' = [inflight |-> <<>>, buffered |-> <<>>]
  /\ fsq' = {}
  /\ spc' = "idle" /\ sweepQ' = <<>>
  /\ isShuttingDown' = FALSE /\ sdpc' = "idle"
  /\ wstate' = <<>>
  /\ paused' = FALSE
  /\ ret' = NoRet
  /\ dpc' = "idle" /\ dsnap' = FALSE
  /\ repeatingJobs' = {}
  /\ progressSent' = [j \in JobIds |-> <<>>]
  /\ UNCHANGED <<config, nDrained, now, dlqLog, emitted, nCalls>>


(* ----------------- the storage API, called directly -------------------- *)
(* FileStore driven through StorageInterface, one awaited call at a time,  *)
(* as test/FileStore.test.ts does.                                         *)

\* The records a caller passes to addJob: a new Job, possibly marked before
\* the call (job.markProcessing(); store.addJob(job.toData())).
JobInputs ==
  {[NewJob(id, MaxAttempts, 0, {}, 0, 0) EXCEPT !.status = st] :
     id \in StoreIds, st \in {"pending", "processing"}}

\* The records passed to updateJob: the stored record with a new status.
UpdateInputs ==
  {[jobs[id] EXCEPT !.status = st] :
     id \in {x \in JobIds : jobs[x] # NoJob},
     st \in {"pending", "processing", "completed", "failed"}}

\* The records passed to moveToDeadLetter: a stored job after markFailed.
DeadInputs ==
  {[jobs[id] EXCEPT !.status = "failed"] : id \in {x \in JobIds : jobs[x] # NoJob}}

\* FileStore.initialize on a new FileStore over the same path.
FS_initialize ==
  /\ IsFile /\ ~fsOpen /\ restarts <= MaxRestarts
  /\ StorageInitialize
  /\ UNCHANGED <<config, apiVars, ctlVars, now, dlqLog, restarts, rtVars>>

\* FileStore.addJob
FS_addJob(job) ==
  /\ IsFile /\ fsOpen /\ Len(log) < MaxLogLen
  /\ jobs' = [jobs EXCEPT ![job.id] = job]
  /\ jobOrder' = MapSetOrder(jobOrder, job.id)
  /\ log' = Append(log, Serialize(job))
  /\ UNCHANGED <<config, apiVars, ctlVars, now, deadLetterJobs, dlqLog, fsOpen, restarts, rtVars>>

\* FileStore.updateJob: throws when the id is absent.
FS_updateJob(job) ==
  /\ IsFile /\ fsOpen /\ Len(log) < MaxLogLen
  /\ jobs[job.id] # NoJob
  /\ jobs' = [jobs EXCEPT ![job.id] = job]
  /\ log' = Append(log, Serialize(job))
  /\ UNCHANGED <<config, apiVars, ctlVars, now, jobOrder, deadLetterJobs, dlqLog, fsOpen, restarts, rtVars>>

\* FileStore.moveToDeadLetter
FS_moveToDeadLetter(job) ==
  /\ IsFile /\ fsOpen /\ Len(dlqLog) < MaxLogLen
  /\ deadLetterJobs' = [deadLetterJobs EXCEPT ![job.id] = job]
  /\ jobs' = [jobs EXCEPT ![job.id] = NoJob]
  /\ jobOrder' = MapDeleteOrder(jobOrder, job.id)
  /\ dlqLog' = Append(dlqLog, Serialize(job))
  /\ log' = rewriteJobFile(jobs', jobOrder', log)
  /\ UNCHANGED <<config, apiVars, ctlVars, now, fsOpen, restarts, rtVars>>

\* FileStore.removeFromDeadLetter
FS_removeFromDeadLetter(id) ==
  /\ IsFile /\ fsOpen
  /\ deadLetterJobs[id] # NoJob
  /\ deadLetterJobs' = [deadLetterJobs EXCEPT ![id] = NoJob]
  /\ dlqLog' = rewriteDlqFile(deadLetterJobs')
  /\ UNCHANGED <<config, apiVars, ctlVars, now, jobs, jobOrder, log, fsOpen, restarts, rtVars>>

\* The records passed to updateJob by a caller that holds a Job of its own,
\* stored or not.
AnyInputs ==
  {[NewJob(id, MaxAttempts, 0, {}, 0, now) EXCEPT !.status = st] :
     id \in StoreIds, st \in {"pending", "completed"}}

\* A presence test that always succeeds.
Has_Always(map, id) == TRUE

\* this.jobs.has(id)
Has(map, id) == map[id] # NoJob

\* addJob of either back-end, awaited: jobs.set, and appendToLog in the
\* file back-end.
S_addJob(job) ==
  /\ nCalls < MaxCalls
  /\ IsFile => fsOpen /\ Len(log) < MaxLogLen
  /\ jobs' = [jobs EXCEPT ![job.id] = job]
  /\ jobOrder' = MapSetOrder(jobOrder, job.id)
  /\ log' = IF IsFile THEN Append(log, Serialize(job)) ELSE log
  /\ ret' = [op |-> "addJob", id |-> job.id, value |-> "resolved"]
  /\ nCalls' = nCalls + 1
  /\ UNCHANGED <<config, apiVars, isShuttingDown, sdpc, wstate, paused, now,
                 deadLetterJobs, dlqLog, fsOpen, restarts, queueVars,
                 rateVars, handlerVars, loopVars, ioVars, sweepVars, emitted>>

\* updateJob of either back-end, awaited: throws `Job ... not found` when
\* the id is absent, else jobs.set, and appendToLog in the file back-end.
S_updateJob(job) ==
  /\ nCalls < MaxCalls
  /\ IsFile => fsOpen /\ Len(log) < MaxLogLen
  /\ IF Has(jobs, job.id)
       THEN /\ jobs' = [jobs EXCEPT ![job.id] = job]
            /\ log' = IF IsFile THEN Append(log, Serialize(job)) ELSE log
            /\ ret' = [op |-> "updateJob", id |-> job.id,
                       value |-> "resolved"]
       ELSE /\ ret' = [op |-> "updateJob", id |-> job.id, value |-> "threw"]
            /\ UNCHANGED <<jobs, log>>
  /\ nCalls' = nCalls + 1
  /\ UNCHANGED <<config, apiVars, isShuttingDown, sdpc, wstate, paused, now,
                 jobOrder, deadLetterJobs, dlqLog, fsOpen, restarts,
                 queueVars, rateVars, handlerVars, loopVars, ioVars,
                 sweepVars, emitted>>

\* pendingJobs.push({ ...job }): the array holds a new object per job, not
\* the object the Map holds.
ReturnsCopies == TRUE

\* getPendingJobs(t) of either back-end, awaited.
S_getPendingJobs(t) ==
  /\ IsFile => fsOpen
  /\ ret' = [op |-> "getPendingJobs", id |-> "-",
             value |-> [now |-> t, jobs |-> getPendingJobs(t)]]
  /\ UNCHANGED <<config, apiVars, isShuttingDown, sdpc, wstate, paused, now,
                 storeVars, rtVars>>

\* The caller assigns a field of a record it got from getPendingJobs: the
\* object the Map holds changes only if it is that same object.
MutateResult(i, st) ==
  /\ ret.op = "getPendingJobs" /\ ret.id = "-"
  /\ i \in 1..Len(ret.value.jobs)
  /\ ret' = [ret EXCEPT !.id = "mutated", !.value.jobs[i].status = st]
  /\ jobs' = IF ReturnsCopies \/ jobs[ret.value.jobs[i].id] = NoJob
               THEN jobs
               ELSE [jobs EXCEPT ![ret.value.jobs[i].id].status = st]
  /\ UNCHANGED <<config, apiVars, isShuttingDown, sdpc, wstate, paused, now,
                 jobOrder, deadLetterJobs, log, dlqLog, fsOpen, restarts,
                 rtVars>>

\* FileStore.close, or the process stops (an accepted line is durable).
FS_close ==
  /\ IsFile /\ fsOpen /\ restarts < MaxRestarts
  /\ fsOpen' = FALSE
  /\ restarts' = restarts + 1
  /\ UNCHANGED <<config, apiVars, ctlVars, now, jobs, jobOrder, deadLetterJobs, log, dlqLog, rtVars>>

\* The clock (Date.now() is read as constant during one macrotask and the
\* microtasks it leaves).
Advance ==
  /\ Quiet
  /\ now < MaxTime
  /\ now' = now + 1
  /\ UNCHANGED <<config, apiVars, ctlVars, storeVars, rtVars>>

vars == <<config, ctlVars, apiVars, now, storeVars, rtVars>>

(* ------------------------------ configurations ------------------------- *)

\* A QueueConfig: storage, concurrency, rateLimiter {max, duration},
\* retry {maxAttempts, backoff {type, delay}}, stalledInterval.
Config(storage, concurrency, rateLimited, backoffDelay) ==
  [storage |-> storage, concurrency |-> concurrency,
   rateLimited |-> rateLimited, rateMax |-> 2, rateDuration |-> 1,
   maxAttempts |-> MaxAttempts, backoffType |-> "exponential",
   backoffDelay |-> backoffDelay, stalledInterval |-> 1]

\* new Queue(config) followed by process(fn), over files that do not exist.
InitQueue(cfg) ==
  /\ config = cfg
  /\ now = 0
  /\ jobs = EmptyMap /\ jobOrder = <<>> /\ deadLetterJobs = EmptyMap
  /\ log = <<>> /\ dlqLog = <<>>
  /\ fsOpen = FALSE
  /\ restarts = 0
  /\ isInitialized = FALSE
  /\ isRunning = FALSE /\ interval = FALSE /\ tickers = 0
  /\ activeJobs = {} /\ completedJobIds = {}
  /\ tokens = cfg.rateMax /\ lastRefill = 0
  /\ workers = <<>>
  /\ pc = [id \in JobIds |-> "idle"]
  /\ hjob = [id \in JobIds |-> NoJob]
  /\ hworker = [id \in JobIds |-> 0]
  /\ hdeps = [id \in JobIds |-> <<>>]
  /\ mq = <<>> /\ offerQ = <<>>
  /\ wq = [inflight |-> <<>>, buffered |-> <<>>]
  /\ fsq = {}
  /\ spc = "idle" /\ sweepQ = <<>>
  /\ emitted = {}
  /\ nCalls = 0
  /\ isShuttingDown = FALSE /\ sdpc = "idle"
  /\ wstate = <<>>
  /\ paused = FALSE
  /\ ret = NoRet
  /\ dpc = "idle" /\ dsnap = FALSE /\ nDrained = 0
  /\ repeatingJobs = {}
  /\ progressSent = [j \in JobIds |-> <<>>]

\* A FileStore used on its own.
InitStore == InitQueue(Config("file", 1, FALSE, 1))

\* The storage API with addJob / updateJob only.
NextLog ==
  \/ FS_initialize
  \/ \E job \in JobInputs : FS_addJob(job)
  \/ \E job \in UpdateInputs : FS_updateJob(job)
  \/ FS_close
  \/ Advance

SpecLog == InitStore /\ [][NextLog]_vars

\* The storage API with the dead letter operations.
NextDlq ==
  \/ FS_initialize
  \/ \E job \in JobInputs : FS_addJob(job)
  \/ \E job \in DeadInputs : FS_moveToDeadLetter(job)
  \/ \E id \in StoreIds : FS_removeFromDeadLetter(id)
  \/ FS_close
  \/ Advance

SpecDlq == InitStore /\ [][NextDlq]_vars

\* The storage API of either back-end with addJob / updateJob of any
\* record, and the file back-end's moveToDeadLetter.
NextStore ==
  \/ FS_initialize
  \/ \E job \in JobInputs : S_addJob(job)
  \/ \E job \in AnyInputs \cup UpdateInputs : S_updateJob(job)
  \/ \E job \in DeadInputs : FS_moveToDeadLetter(job)
  \/ Advance

SpecStore ==
  /\ \E storage \in {"memory", "file"} :
       InitQueue(Config(storage, 1, FALSE, 1))
  /\ [][NextStore]_vars

\* The storage API of either back-end with getPendingJobs, whose caller may
\* write to what it got.
NextPending ==
  \/ FS_initialize
  \/ \E job \in JobInputs : S_addJob(job)
  \/ \E job \in AnyInputs \cup UpdateInputs : S_updateJob(job)
  \/ \E t \in 0..MaxTime : S_getPendingJobs(t)
  \/ \E i \in 1..2 : MutateResult(i, "completed")
  \/ Advance

SpecPending ==
  /\ \E storage \in {"memory", "file"} : InitQueue(Config(storage, 1, FALSE, 1))
  /\ [][NextPending]_vars

\* new Scheduler(storage) with listeners on 'job-ready' and 'error', over a
\* storage that receives jobs and whose query may be rejected, as time
\* passes.
NextSched ==
  \/ \E job \in JobInputs : S_addJob(job)
  \/ SchedStart
  \/ SchedStop
  \/ Tick
  \/ TickFail
  \/ JobReady
  \/ Advance

SpecSched == InitQueue(Config("memory", 1, FALSE, 1)) /\ [][NextSched]_vars

\* What the event loop does on its own, whatever the application calls.
Loop ==
  \/ Q_initialize
  \/ Tick
  \/ OfferNext
  \/ Micro
  \/ \E j \in JobIds : WorkerReady(j)
  \/ \E j \in JobIds, success \in BOOLEAN : WorkerReply(j, success)

\* ... as time passes.
Runtime ==
  \/ Loop
  \/ Advance

\* A memory-backed queue with a rate limiter and concurrency 1.
InitRate == InitQueue(Config("memory", 1, TRUE, 1))

NextRate ==
  \/ Runtime
  \/ \E id \in StoreIds : Add(id, 0, {}, 0, FALSE)

SpecRate == InitRate /\ [][NextRate]_vars

\* A queue over either back-end, concurrency 1, retries without backoff
\* delay; the application adds jobs (with or without its own jobId) and
\* reprocesses dead letters; the process may be restarted.
InitFail ==
  \E storage \in {"memory", "file"} : InitQueue(Config(storage, 1, FALSE, 0))

NextFail ==
  \/ Loop
  \/ \E id \in StoreIds, supplied \in BOOLEAN : Add(id, 0, {}, 0, supplied)
  \/ \E id \in StoreIds : Reprocess(id)
  \/ WriteDone
  \/ \E o \in fsq : FsDone(o)
  \/ Restart

SpecFail == InitFail /\ [][NextFail]_vars

\* The same queue when the application adds jobs under generated ids only
\* and the process keeps running.
NextRetry ==
  \/ Loop
  \/ \E id \in StoreIds : Add(id, 0, {}, 0, FALSE)
  \/ \E id \in StoreIds : Reprocess(id)
  \/ WriteDone
  \/ \E o \in fsq : FsDone(o)

SpecRetry == InitFail /\ [][NextRetry]_vars

\* retry.backoff.delay of the configurations below: none, one clock unit,
\* half an hour, and just over the hour.
BaseDelays == {0, 1, 30 * 60 * 1000, 60 * 60 * 1000 + 1}

\* A queue over the memory back-end under either backoff strategy and each
\* base delay, with jobs that fail, as time passes.
InitBackoff ==
  \E type \in {"exponential", "fixed"}, delay \in BaseDelays :
    InitQueue([Config("memory", 1, FALSE, delay) EXCEPT !.backoffType = type])

NextBackoff ==
  \/ Runtime
  \/ \E id \in StoreIds : Add(id, 0, {}, 0, FALSE)

SpecBackoff == InitBackoff /\ [][NextBackoff]_vars

\* ... and waits for the queue to drain.
NextDrain ==
  \/ NextRetry
  \/ Q_drain
  \/ DrainTimer

SpecDrain == InitFail /\ [][NextDrain]_vars

\* The same queue as time passes, when the application cleans old
\* completed jobs.
NextClean ==
  \/ Runtime
  \/ \E id \in StoreIds : Add(id, 0, {}, 0, FALSE)
  \/ \E maxAge \in 0..1 : Q_clean(maxAge)
  \/ WriteDone
  \/ \E o \in fsq : FsDone(o)

SpecClean == InitFail /\ [][NextClean]_vars

\* ... and removes jobs.
NextRemove ==
  \/ NextRetry
  \/ \E id \in StoreIds : Q_removeJob(id)

SpecRemove == InitFail /\ [][NextRemove]_vars

\* ... and reprocesses any id, in the dead-letter store or not.
NextReprocess ==
  \/ NextRetry
  \/ \E id \in StoreIds : ReprocessMiss(id)

SpecReprocess == InitFail /\ [][NextReprocess]_vars

\* The same queue when creating a worker may fail.
NextWorkerFault ==
  \/ NextRetry
  \/ \E j \in JobIds : WorkerInitFail(j)

SpecWorkerFault == InitFail /\ [][NextWorkerFault]_vars

\* A file-backed queue whose stalled checker sweeps while a job runs, time
\* passes, and the process may crash and be restarted.
InitStall == InitQueue(Config("file", 1, FALSE, 0))

NextStall ==
  \/ Runtime
  \/ Add("a", 0, {}, 0, FALSE)
  \/ SweepTimer
  \/ WriteDone
  \/ \E o \in fsq : FsDone(o)
  \/ Restart

SpecStall == InitStall /\ [][NextStall]_vars

\* A file-backed queue with concurrency 2 whose stalled checker sweeps
\* while two jobs run, as time passes; the processor succeeds.
NextSweep ==
  \/ Q_initialize
  \/ Tick
  \/ OfferNext
  \/ Micro
  \/ \E j \in JobIds : WorkerReady(j)
  \/ \E j \in JobIds : WorkerReply(j, TRUE)
  \/ Advance
  \/ \E id \in StoreIds : Add(id, 0, {}, 0, FALSE)
  \/ SweepTimer
  \/ WriteDone

SpecSweep == InitQueue(Config("file", 2, FALSE, 0)) /\ [][NextSweep]_vars

\* A memory-backed queue with concurrency 2 and no rate limiter, to which
\* the application adds jobs that succeed or fail.
NextPool ==
  \/ Loop
  \/ \E id \in StoreIds : Add(id, 0, {}, 0, FALSE)

SpecPool == InitQueue(Config("memory", 2, FALSE, 0)) /\ [][NextPool]_vars

\* A file-backed queue with concurrency 2 running a job and the jobs that
\* depend on it.
InitDeps == InitQueue(Config("file", 2, FALSE, 0))

NextDeps ==
  \/ Loop
  \/ Add("a", 0, {}, 0, FALSE)
  \/ \E id \in JobIds \ {"a"} : Add(id, 0, {"a"}, 0, FALSE)
  \/ WriteDone
  \/ \E o \in fsq : FsDone(o)

SpecDeps == InitDeps /\ [][NextDeps]_vars

\* A memory-backed queue that is given a plain job, a job that depends on
\* it and a delayed job.  The scheduler's interval keeps firing, microtasks
\* always run, workers always answer and time passes: weak fairness on each
\* of these steps.
InitLive == InitQueue(Config("memory", 1, FALSE, 0))

NextLive ==
  \/ Runtime
  \/ Add("a", 0, {}, 0, FALSE)
  \/ Add("b", 0, {"a"}, 0, FALSE)
  \/ Add("c", 1, {}, 0, FALSE)

Fairness ==
  /\ WF_vars(Q_initialize)
  /\ WF_vars(Tick)
  /\ WF_vars(OfferNext)
  /\ WF_vars(Micro)
  /\ WF_vars(Advance)
  /\ \A j \in JobIds :
       /\ WF_vars(WorkerReady(j))
       /\ WF_vars(\E success \in BOOLEAN : WorkerReply(j, success))

SpecLive == InitLive /\ [][NextLive]_vars /\ Fairness

\* A queue whose processors report progress while they run.
NextProgress ==
  \/ Loop
  \/ \E id \in StoreIds : Add(id, 0, {}, 0, FALSE)
  \/ \E j \in JobIds, n \in ProgressInputs : UpdateProgress(j, n)

SpecProgress == InitLive /\ [][NextProgress]_vars

\* The repeat options of add: every 1, with or without a limit (0
\* included), a startDate and an endDate.
RepeatConfigs ==
  {[pattern |-> "", every |-> 1, limit |-> limit, startDate |-> startDate,
    endDate |-> endDate] :
     limit \in {Undefined, 0, 1, 2}, startDate \in {Undefined, 2},
     endDate \in {Undefined, 2}}

\* A memory-backed queue to which the application adds one repeating
\* job, as time passes.
NextRepeat ==
  \/ Runtime
  \/ \E cfg \in RepeatConfigs : AddRepeat("a", cfg)
  \/ \E tm \in repeatingJobs : RepeatTimer(tm)

SpecRepeat == InitLive /\ [][NextRepeat]_vars

\* The repeat options of add with a cron pattern, valid or not.
CronConfigs ==
  {[NoRepeat EXCEPT !.pattern = pattern] :
     pattern \in {EveryMinute, "every minute"}}

\* A memory-backed queue to which the application adds a plain job and a
\* job repeating by a cron pattern, as time passes.
NextCron ==
  \/ Runtime
  \/ Add("b", 0, {}, 0, FALSE)
  \/ \E cfg \in CronConfigs : AddRepeat("a", cfg)
  \/ \E tm \in repeatingJobs : RepeatTimer(tm)

SpecCron == InitLive /\ [][NextCron]_vars

\* A memory-backed queue that the application pauses and resumes while
\* it adds jobs.
NextPause ==
  \/ Loop
  \/ \E id \in StoreIds : Add(id, 0, {}, 0, FALSE)
  \/ Q_pause
  \/ Q_resume

SpecPause == InitLive /\ [][NextPause]_vars

\* A memory-backed queue, concurrency 2, with or without a rate limiter,
\* given at different times a job of priority 1 and a job of priority 0 or 1.
InitPrio ==
  \E rateLimited \in BOOLEAN : InitQueue(Config("memory", 2, rateLimited, 0))

NextPrio ==
  \/ Runtime
  \/ \E priority \in 0..1 : Add("a", 0, {}, priority, FALSE)
  \/ Add("b", 0, {}, 1, FALSE)

SpecPrio == InitPrio /\ [][NextPrio]_vars

\* A memory-backed queue whose rate limiter allows 1 job per 2 time units.
InitWindow ==
  InitQueue([Config("memory", 1, TRUE, 0) EXCEPT !.rateMax = 1,
                                                  !.rateDuration = 2])

NextWindow ==
  \/ Runtime
  \/ \E id \in StoreIds : Add(id, 0, {}, 0, FALSE)

SpecWindow == InitWindow /\ [][NextWindow]_vars

\* A queue over either back-end that is shut down, once or repeatedly,
\* while jobs are added and run; a worker's child process may exit under a
\* job.  The event loop runs every microtask and serves every callback that
\* is ready, however often the scheduler's timer fires in between: weak
\* fairness on the timer and the microtasks, strong fairness on the I/O
\* completions, the worker messages and shutdown's own timers.
NextShut ==
  \/ Loop
  \/ \E id \in StoreIds : Add(id, 0, {}, 0, FALSE)
  \/ \E id \in StoreIds : AddRejected(id)
  \/ Shutdown
  \/ ShutdownPoll
  \/ WorkersExited
  \/ StorageClosed
  \/ \E j \in JobIds : WorkerCrash(j)
  \/ WriteDone
  \/ \E o \in fsq : FsDone(o)

FairShut ==
  /\ WF_vars(Tick)
  /\ WF_vars(OfferNext)
  /\ WF_vars(Micro)
  /\ SF_vars(ShutdownPoll)
  /\ SF_vars(WorkersExited)
  /\ SF_vars(StorageClosed)
  /\ SF_vars(WriteDone)
  /\ SF_vars(\E o \in fsq : FsDone(o))
  /\ \A j \in JobIds :
       /\ SF_vars(WorkerReady(j))
       /\ SF_vars(\E success \in BOOLEAN : WorkerReply(j, success))

SpecShut == InitFail /\ [][NextShut]_vars /\ FairShut

(* ------------------------------ claims --------------------------------- *)

\* A new FileStore has just run initialize() over the files.
ReInitialized == ~fsOpen /\ fsOpen'

PersistedIds == {log[i].id : i \in 1..Len(log)}

\* The last line of the main log that carries `id`.
LastLine(id) ==
  LET idx == {i \in 1..Len(log) : log[i].id = id}
  IN log[CHOOSE i \in idx : \A k \in idx : k <= i]

\* C4: on re-initialize of the file back-end, every job whose persisted
\* status is processing becomes pending with attempts incremented by exactly
\* 1 and nextRunAt <= the recovery instant; jobs persisted as completed or
\* failed are left unchanged.
C4_RecoveryRearmsProcessing ==
  [][ReInitialized =>
       \A id \in PersistedIds :
         LET p == Parse(LastLine(id))
         IN /\ p.status = "processing" =>
                 /\ jobs'[id].status = "pending"
                 /\ jobs'[id].attempts = p.attempts + 1
                 /\ jobs'[id].nextRunAt <= now'
            /\ p.status \in {"completed", "failed"} => jobs'[id] = p]_vars

\* A store re-opened over a log that held a processing job (now re-armed with
\* attempts 1) and a completed one.
C4_Witness ==
  /\ fsOpen /\ restarts = 1
  /\ \E id \in JobIds : jobs[id].status = "pending" /\ jobs[id].attempts = 1
  /\ \E id \in JobIds : jobs[id].status = "completed"

\* C6: after any sequence of addJob / updateJob on the file back-end, close
\* and re-initialize, every id the closed store held is retrievable from the
\* new store with the status it was last written with, except that processing
\* is re-armed to pending.
C6_LastStatusSurvivesReopen ==
  [][ReInitialized =>
       \A id \in JobIds :
         jobs[id] # NoJob =>
           /\ jobs'[id] # NoJob
           /\ jobs'[id].status = IF jobs[id].status = "processing"
                                   THEN "pending" ELSE jobs[id].status]_vars

\* A store re-opened over a log in which an earlier line of a job (another
\* status) precedes its last one.
C6_Witness ==
  /\ fsOpen /\ restarts = 1
  /\ \E id \in JobIds :
       /\ jobs[id].status = "completed"
       /\ \E i \in 1..Len(log) : log[i].id = id /\ log[i].status # "completed"

\* C7: a job that was moved to the DLQ (present in the DLQ, absent from the
\* main store) is, after close and re-initialize, still in the DLQ and absent
\* from the main store.
C7_DeadLetterSurvivesReopen ==
  [][ReInitialized =>
       \A id \in JobIds :
         (deadLetterJobs[id] # NoJob /\ jobs[id] = NoJob) =>
           (deadLetterJobs'[id] # NoJob /\ jobs'[id] = NoJob)]_vars

\* The handler of job j runs handleJobFailure after a failed execution.
FailureStep(j) ==
  pc[j] = "res_fail" /\ pc'[j] # "res_fail" /\ restarts' = restarts

\* How many entries of the dead-letter store carry the id.
TimesInDeadLetter(j) ==
  Cardinality({i \in DOMAIN getFailedJobs : getFailedJobs[i].id = j})

\* C2: when an execution of a job fails, the job becomes failed exactly when
\* its attempts, after the increment, have reached maxAttempts; it is then
\* in the dead-letter store exactly once and no longer in the main store;
\* otherwise it stays in the main store as pending.
C2_FailureTransition ==
  [][\A j \in JobIds : FailureStep(j) =>
        LET n == hjob[j].attempts + 1
        IN /\ hjob'[j].attempts = n
           /\ (hjob'[j].status = "failed") <=> (n >= hjob[j].maxAttempts)
           /\ IF n >= hjob[j].maxAttempts
                THEN /\ TimesInDeadLetter(j)' = 1
                     /\ deadLetterJobs'[j].status = "failed"
                     /\ jobs'[j] = NoJob
                ELSE /\ jobs'[j] # NoJob
                     /\ jobs'[j].status = "pending"
                     /\ jobs'[j].attempts = n]_vars

\* A job that was retried at least once has just been moved to the
\* dead-letter store by its last allowed failure.
C2_Witness ==
  \E j \in JobIds :
    /\ pc[j] = "f_dlq"
    /\ deadLetterJobs[j] # NoJob
    /\ deadLetterJobs[j].attempts >= 2
    /\ deadLetterJobs[j].attempts = deadLetterJobs[j].maxAttempts

\* C3: every job id is in at most one of the main store and the dead-letter
\* store at any time, also when jobs are added under a caller-supplied jobId.
C3_OneStorePerId ==
  \A id \in JobIds : ~(jobs[id] # NoJob /\ deadLetterJobs[id] # NoJob)

\* The process is restarted over the files the crashed one left.
Restarted == restarts' = restarts + 1

\* C5: after a restart, every job that was in flight when the process
\* crashed (persisted as processing, or flagged stalled by the sweeper) is
\* pending again.
C5_RestartRearmsInFlight ==
  [][Restarted =>
       \A id \in PersistedIds :
         Parse(LastLine(id)).status \in {"processing", "stalled"} =>
           jobs'[id].status = "pending"]_vars

\* C8: for a job with dependsOn = [A], its ACTIVE event is emitted only
\* after A's COMPLETED event, in every interleaving of A's completion
\* handling with scheduler ticks and storage writes.
C8_ActiveAfterCompleted ==
  \A id \in JobIds, dep \in JobIds :
    (/\ jobs[id] # NoJob
     /\ dep \in jobs[id].dependsOn
     /\ <<"active", id>> \in emitted) => <<"completed", dep>> \in emitted

\* Every id the job depends on is completed in the store.
DependenciesCompleted(id) ==
  \A dep \in jobs[id].dependsOn : jobs[dep].status = "completed"

\* C9: a waiting job whose dependencies are all completed eventually becomes
\* pending, whether they completed before or after the job was added.
C9_WaitingLeadsToPending ==
  \A id \in JobIds :
    (jobs[id].status = "waiting" /\ DependenciesCompleted(id))
      ~> (jobs[id].status = "pending")

\* C10: a job added with a delay, once its nextRunAt has come, eventually
\* becomes pending.
C10_DelayedLeadsToPending ==
  \A id \in JobIds :
    (jobs[id].status = "delayed" /\ now >= jobs[id].nextRunAt)
      ~> (jobs[id].status = "pending")

\* Job id goes from pending to processing in this step.
Admitted(id) == jobs[id].status = "pending" /\ jobs'[id].status = "processing"

\* The jobs of the current tick that no admission rule has turned away and
\* that are not admitted yet: those the emit loop has not reached and those
\* whose handler is awaiting the rate limiter's answer.
AwaitingAdmission ==
  {offerQ[i] : i \in 2..Len(offerQ)} \cup
  {hjob[j] : j \in {k \in JobIds : pc[k] = "rl"}}

\* C11: of two jobs pending and due in the same tick, the one with the higher
\* priority becomes processing first, and at equal priority the one with
\* the earlier nextRunAt is offered first: when a job is admitted, no job of
\* the tick that is still to be admitted ranks before it.
C11_PriorityOrder ==
  [][\A L \in JobIds :
       Admitted(L) =>
         \A H \in AwaitingAdmission :
           H.id # L =>
             /\ H.priority <= jobs[L].priority
             /\ H.priority = jobs[L].priority =>
                  H.nextRunAt >= jobs[L].nextRunAt]_vars

\* A low-priority job added first is admitted after the high-priority job
\* of the same tick, which is already processing.
C11_Witness ==
  \E H, L \in JobIds :
    /\ jobs[H].status = "processing" /\ jobs[L].status = "processing"
    /\ jobs[H].priority > jobs[L].priority
    /\ jobs[H].nextRunAt > jobs[L].nextRunAt
    /\ pc[H] = "wh" /\ pc[L] = "upd"

\* The jobs whose (latest) transition to processing fell in [t, t + d).
StartedIn(t, d) ==
  {id \in JobIds :
     /\ jobs[id] # NoJob
     /\ jobs[id].startedAt # Undefined
     /\ t <= jobs[id].startedAt /\ jobs[id].startedAt < t + d}

\* C12: with a rate limiter {max, duration}, in any window of length
\* duration, aligned with the refill instants or not, at most max jobs
\* become processing.
C12_WindowLimit ==
  config.rateLimited =>
    \A t \in 0..MaxTime :
      Cardinality(StartedIn(t, config.rateDuration)) <= config.rateMax

\* C13: every shutdown() call completes: once shutdown has been called, it
\* runs to its end (workers terminated, storage closed).
C13_ShutdownCompletes == isShuttingDown ~> (sdpc = "done")

\* shutdown() has left its wait loop: it is terminating the workers, closing
\* the storage, or done.
PastWait == sdpc \in {"term", "close", "done"}

\* C14: during shutdown no worker is terminated and storage is not closed
\* while a job is in activeJobs (every handler has run to its end and its
\* last write is in the file), and no job becomes processing after
\* shutdown has started.
C14_ShutdownWaitsForActive ==
  [][/\ PastWait' =>
          /\ activeJobs' = {}
          /\ \A j \in JobIds : pc'[j] = "idle"
          /\ \A i \in 1..Len(wq'.inflight) : wq'.inflight[i].task.k # "h"
          /\ \A i \in 1..Len(wq'.buffered) : wq'.buffered[i].task.k # "h"
     /\ isShuttingDown => \A id \in JobIds : ~Admitted(id)]_vars

\* shutdown() was called while a job was in flight and went on to terminate
\* the worker once the job had completed.
C14_Witness ==
  /\ sdpc = "done"
  /\ \E j \in JobIds :
       /\ jobs[j].status = "completed"
       /\ ret.op = "add" /\ ret.value = "rejected"
       /\ \E i \in 1..Len(wstate) : wstate[i] = "gone"

\* C15: for every job id subscribers observe exactly one terminal event:
\* in particular, once completed or failed has been emitted for an id, the
\* job of that id is never taken for execution again.
C15_TerminalEventIsFinal ==
  [][\A id \in JobIds :
       (<<"completed", id>> \in emitted \/ <<"failed", id>> \in emitted)
         => ~Admitted(id)]_vars

\* The microtask at the head of the queue, of kind k, runs in this step.
Runs(k) ==
  /\ mq # <<>> /\ Head(mq).k = k /\ offerQ = <<>>
  /\ mq' # mq /\ restarts' = restarts

\* C16: a job that exhausted its retries is in getFailedJobs and getJob
\* finds nothing; reprocessFailed of it takes it out of the dead-letter
\* store, re-inserts it into the main store with attempts 0, pending and
\* due, under a running scheduler, and returns true; reprocessFailed of an
\* id that is not in the dead-letter store returns false and changes
\* neither store.
C16_ReprocessFailed ==
  [][/\ \A j \in JobIds :
          (deadLetterJobs[j] = NoJob /\ deadLetterJobs'[j] # NoJob) =>
            /\ \E i \in 1..Len(getFailedJobs') : getFailedJobs'[i].id = j
            /\ jobs'[j] = NoJob
     /\ Runs("rp") =>
          LET id == Head(mq).id
          IN /\ deadLetterJobs'[id] = NoJob
             /\ jobs[id] = NoJob
             /\ jobs'[id] # NoJob
             /\ jobs'[id].attempts = 0
             /\ jobs'[id].status = "pending"
             /\ jobs'[id].nextRunAt <= now'
             /\ isRunning'
     /\ Runs("nop") =>
          /\ ret' = [op |-> "reprocessFailed", id |-> Head(mq).id,
                     value |-> "true"]
          /\ deadLetterJobs'[Head(mq).id] = NoJob
          /\ jobs'[Head(mq).id] # NoJob
          /\ jobs'[Head(mq).id].attempts = 0
     /\ (nCalls' # nCalls /\ ret' # ret) =>
          /\ ret'.op = "reprocessFailed" /\ ret'.value = "false"
          /\ deadLetterJobs[ret'.id] = NoJob
          /\ <<jobs', deadLetterJobs', log', dlqLog'>> =
               <<jobs, deadLetterJobs, log, dlqLog>>
          /\ wq' = wq /\ fsq' = fsq]_vars

\* A job that had failed for good was reprocessed and has run again, to
\* completion; a later reprocessFailed of an id that is in no dead-letter
\* store returned false.
C16_Witness ==
  /\ ret.op = "reprocessFailed" /\ ret.value = "false"
  /\ \E j \in JobIds :
       /\ <<"failed", j>> \in emitted
       /\ jobs[j] # NoJob /\ jobs[j].status = "completed"
       /\ jobs[j].attempts = 0

\* C17: in every reachable state, also after crash recovery and further
\* failing executions, every job of the main store and of the dead-letter
\* store has attempts <= maxAttempts.
C17_AttemptsBounded ==
  \A id \in JobIds :
    /\ jobs[id] # NoJob => jobs[id].attempts <= jobs[id].maxAttempts
    /\ deadLetterJobs[id] # NoJob =>
         deadLetterJobs[id].attempts <= deadLetterJobs[id].maxAttempts

\* C18: when the child process of a worker exits while job J is in flight,
\* the execution counts as a failure and J's retry is executed by an
\* initialised worker: every handler that hands its job to worker.execute
\* holds a worker whose child process is alive and ready.
C18_RetryOnReadyWorker ==
  [][\A j \in JobIds :
       (pc[j] = "gotw" /\ pc'[j] # "gotw" /\ restarts' = restarts)
         => wstate[hworker[j]] = "ready"]_vars

\* C19: when creating or initialising the worker of an admitted job fails,
\* the job is handled as a failed execution (attempts incremented, armed
\* for retry or moved to the dead-letter store, removed from activeJobs):
\* once its handler has ended, the job is neither in activeJobs nor
\* processing.
C19_InitFailureIsJobFailure ==
  \A j \in JobIds :
    pc[j] = "idle" =>
      /\ j \notin activeJobs
      /\ jobs[j] # NoJob => jobs[j].status # "processing"

\* C20: between a pause() call and the next resume() call no job goes from
\* pending to processing, whatever other calls (add included) are made in
\* between.
C20_PausedAdmitsNothing ==
  [][paused => \A id \in JobIds : ~Admitted(id)]_vars

\* C21: each drain() call emits DRAINED exactly once (a pending call ends
\* by emitting it, and emits it as it ends), and only at a moment when no
\* job of the main store is pending, waiting or delayed and activeJobs is
\* empty.
C21_DrainedWhenIdle ==
  [][/\ nDrained' # nDrained =>
          /\ nDrained' = nDrained + 1
          /\ dpc = "check" /\ dpc' = "idle"
          /\ NoBacklog(jobs') /\ activeJobs' = {}
     /\ (dpc # "idle" /\ dpc' = "idle") => nDrained' = nDrained + 1]_vars

\* drain() was called while work was outstanding and has emitted DRAINED
\* once the jobs were done: one completed, one in the dead-letter store.
C21_Witness ==
  /\ nDrained = 1 /\ dpc = "idle"
  /\ \E j, k \in JobIds :
       /\ jobs[j] # NoJob /\ jobs[j].status = "completed"
       /\ deadLetterJobs[k] # NoJob

\* C22: the completed jobs older than maxAge that clean(maxAge) counts
\* are no longer in the main store and no longer in completedJobIds, and
\* every other job is unchanged: when clean takes an id out of
\* completedJobIds, getJob of that id finds nothing.
C22_CleanRemovesJobs ==
  [][\A id \in JobIds :
       (id \in completedJobIds /\ id \notin completedJobIds'
          /\ restarts' = restarts)
         => jobs'[id] = NoJob]_vars

\* C23: removeJob(id) returns false and changes nothing when the job is in
\* activeJobs or does not exist; otherwise it returns true and the job is
\* removed from the main store (getJob finds nothing) and is never
\* dispatched afterwards.
C23_RemoveJob ==
  [][Runs("rmret") =>
       /\ ret'.value = "true"
       /\ jobs'[Head(mq).id] = NoJob]_vars

\* The recurrence timer tm fires in this step.
Fires(tm) ==
  tm \in repeatingJobs /\ tm \notin repeatingJobs' /\ restarts' = restarts

\* C24: each time a recurrence timer fires, a new job is persisted under a
\* fresh id (not the source's, not one in use), with attempts 0, status
\* pending and repeatCount one greater than its source, and the stored
\* record of the source job (as of every other job) is left unchanged.
C24_RepeatInstanceIsFresh ==
  [][\A tm \in repeatingJobs :
       Fires(tm) =>
         \E id \in JobIds :
           /\ id # tm.job.id
           /\ jobs[id] = NoJob /\ deadLetterJobs[id] = NoJob
           /\ jobs'[id] # NoJob
           /\ jobs'[id].attempts = 0
           /\ jobs'[id].status = "pending"
           /\ jobs'[id].repeatCount = tm.job.repeatCount + 1
           /\ \A other \in JobIds \ {id} : jobs'[other] = jobs[other]]_vars

\* C25: with a limit L the engine stops arming once repeatCount >= L, so
\* no instance has a repeatCount above L (at most L instances per add),
\* and no instance is created for an occurrence after endDate.
C25_RepeatLimit ==
  [][\A tm \in repeatingJobs :
       Fires(tm) =>
         LET cfg == tm.job.repeatConfig
         IN /\ cfg.limit # Undefined => tm.job.repeatCount + 1 <= cfg.limit
            /\ cfg.endDate # Undefined => tm.nextRunAt <= cfg.endDate]_vars

\* C26: for both back-ends, addJob with an id that is already in the main
\* store fails and leaves the stored record unchanged.
C26_AddJobRejectsDuplicate ==
  [][(nCalls' # nCalls /\ ret'.op = "addJob" /\ Has(jobs, ret'.id)) =>
       /\ ret'.value = "threw"
       /\ jobs' = jobs /\ log' = log]_vars

\* C27: for both back-ends, updateJob with an id absent from the main
\* store fails with a not-found error and leaves the main store, the
\* dead-letter store and the logs unchanged; with a present id it replaces
\* that record (and, on file, appends it to the log) and no other.
C27_UpdateJob ==
  [][(nCalls' # nCalls /\ ret'.op = "updateJob") =>
       LET id == ret'.id
       IN IF jobs[id] = NoJob
            THEN /\ ret'.value = "threw"
                 /\ <<jobs', jobOrder', deadLetterJobs', log', dlqLog'>> =
                      <<jobs, jobOrder, deadLetterJobs, log, dlqLog>>
            ELSE /\ ret'.value = "resolved"
                 /\ jobs'[id] # NoJob /\ jobs'[id].id = id
                 /\ \A other \in JobIds \ {id} : jobs'[other] = jobs[other]
                 /\ deadLetterJobs' = deadLetterJobs
                 /\ IsFile => /\ Len(log') = Len(log) + 1
                              /\ Parse(log'[Len(log')]) = jobs'[id]]_vars

\* updateJob of an id that is in the dead-letter store only has thrown,
\* while another job is in the main store.
C27_Witness ==
  /\ ret.op = "updateJob" /\ ret.value = "threw"
  /\ jobs[ret.id] = NoJob
  /\ deadLetterJobs[ret.id] # NoJob
  /\ \E id \in JobIds : jobs[id] # NoJob

\* The ids of the main store that are pending and due at t.
Due(t) ==
  {id \in JobIds :
     jobs[id] # NoJob /\ jobs[id].status = "pending" /\ jobs[id].nextRunAt <= t}

MaxAttemptNumber == 8

\* The delay the strategy prescribes for attempt n with base delay b.
BackoffDelay(type, b, n) ==
  IF type = "exponential"
    THEN IF b * 2 ^ (n - 1) <= 3600000 THEN b * 2 ^ (n - 1) ELSE 3600000
    ELSE b

\* C29: for every attempt n >= 1 the backoff delay is
\* min(b * 2^(n-1), 3600000) under the exponential strategy and exactly b
\* under the fixed strategy, and when an execution of a job fails, the
\* job's nextRunAt becomes the instant of the failure plus the delay for its
\* new attempts count.
C29_BackoffDelay ==
  [][/\ \A n \in 1..MaxAttemptNumber :
          calculateDelay(n) =
            BackoffDelay(config.backoffType, config.backoffDelay, n)
     /\ \A j \in JobIds :
          (FailureStep(j) /\ hjob'[j] # NoJob) =>
            /\ hjob'[j].attempts = hjob[j].attempts + 1
            /\ hjob'[j].nextRunAt =
                 now + BackoffDelay(config.backoffType, config.backoffDelay,
                                    hjob'[j].attempts)
            /\ jobs'[j] # NoJob => jobs'[j].nextRunAt = hjob'[j].nextRunAt
            /\ deadLetterJobs'[j] # NoJob =>
                 deadLetterJobs'[j].nextRunAt = hjob'[j].nextRunAt]_vars

\* Under the exponential strategy with a base delay above the hour, a job
\* failed after the clock had advanced and waits in the main store for the
\* failure instant plus the capped delay.
C29_Witness ==
  /\ config.backoffType = "exponential" /\ config.backoffDelay > 3600000
  /\ \E j \in JobIds :
       /\ jobs[j] # NoJob /\ jobs[j].status = "pending"
       /\ jobs[j].attempts = 1
       /\ jobs[j].nextRunAt = jobs[j].updatedAt + 3600000
       /\ jobs[j].updatedAt > 0

\* Job.updateProgress
updateProgress(job, progress) ==
  [job EXCEPT !.progress = IF progress < 0 THEN 0
                           ELSE IF progress > 100 THEN 100 ELSE progress]

\* C30: when the processor of a job called updateProgress(n) during an
\* execution, the runtime has emitted a progress event for the job by the
\* time the handler of the job has finished, and while the job is still
\* executing with nothing left to run, the progress recorded on it is n
\* clamped to 0..100.
C30_ProgressRecorded ==
  \A j \in JobIds :
    progressSent[j] # <<>> =>
      /\ (pc[j] = "idle" /\ j \notin activeJobs) =>
           <<"progress", j>> \in emitted
      /\ (pc[j] = "exec" /\ Quiet /\ hjob[j] # NoJob) =>
           hjob[j].progress = updateProgress(hjob[j], progressSent[j][1]).progress

\* C30, second part: the progress of every stored record is within 0..100.
C30_ProgressInRange ==
  \A id \in JobIds :
    /\ jobs[id] # NoJob => jobs[id].progress \in 0..100
    /\ deadLetterJobs[id] # NoJob => deadLetterJobs[id].progress \in 0..100

\* C31: after any sequence of start and stop calls at most one ticker is
\* armed, isRunning is true exactly when a ticker is armed (and the
\* scheduler holds its handle), and a stop leaves no ticker armed.
C31_StartStopIdempotent ==
  [][/\ tickers' \in {0, 1}
     /\ isRunning' <=> tickers' = 1
     /\ interval' <=> tickers' = 1
     /\ (paused' /\ ~paused) => (tickers' = 0 /\ ~isRunning')]_vars

\* The scheduler was started, stopped by pause, and started again by an
\* add on the paused queue: one ticker is armed.
C31_Witness ==
  /\ paused /\ isRunning /\ tickers = 1
  /\ \E id \in JobIds : jobs[id] # NoJob /\ jobs[id].status = "completed"

\* C32: a tick whose storage query fails emits an error event and leaves
\* the scheduler as it was, running with its one ticker armed; a later tick
\* that finds due jobs offers them.
C32_TickFailureKeepsTicker ==
  [][/\ (<<"error", "-">> \in emitted' /\ <<"error", "-">> \notin emitted) =>
          /\ UNCHANGED schedVars
          /\ isRunning' /\ tickers' = 1
     /\ (/\ <<"error", "-">> \in emitted /\ isRunning /\ Quiet
         /\ getPendingJobs(now) # <<>>) => ENABLED Tick]_vars

\* After a failed tick, a tick has offered a job, and it is the first job
\* that any tick offered.
C32_Witness ==
  /\ <<"error", "-">> \in emitted
  /\ offerQ # <<>>
  /\ \A id \in JobIds : <<"job-ready", id>> \notin emitted

\* The stored status of the job becomes stalled.
BecomesStalled(id) ==
  /\ jobs'[id] # NoJob /\ jobs'[id].status = "stalled"
  /\ jobs[id] = NoJob \/ jobs[id].status # "stalled"

\* C33: a job is set to stalled only while it is processing with
\* now - startedAt > stalledInterval; it stays in activeJobs and keeps its
\* worker; and when the result of its execution arrives, the job still
\* becomes completed (success), or pending or dead (failure).
C33_StalledIsObservational ==
  [][\A id \in JobIds :
       /\ BecomesStalled(id) =>
            /\ jobs[id] # NoJob /\ jobs[id].status = "processing"
            /\ now - jobs[id].startedAt > config.stalledInterval
            /\ id \in activeJobs /\ id \in activeJobs'
            /\ workers' = workers
       /\ (/\ jobs[id] # NoJob /\ jobs[id].status = "stalled"
           /\ pc[id] = "res_ok" /\ pc'[id] # "res_ok") =>
            jobs'[id].status = "completed"
       /\ (/\ jobs[id] # NoJob /\ jobs[id].status = "stalled"
           /\ FailureStep(id)) =>
            \/ jobs'[id] # NoJob /\ jobs'[id].status = "pending"
            \/ jobs'[id] = NoJob /\ deadLetterJobs'[id] # NoJob]_vars

\* C34: when a handler calls execute on the worker it was handed, that
\* worker is not executing a job, and no two handlers hold the same worker
\* at that point.
C34_WorkerHandedOnce ==
  [][\A j \in JobIds :
       (pc[j] = "gotw" /\ pc'[j] # "gotw") =>
         /\ workers[hworker[j]] = Idle
         /\ \A k \in JobIds \ {j} :
              pc[k] = "gotw" => hworker[k] # hworker[j]]_vars

\* C35: the pool never holds more workers than the configured concurrency.
C35_PoolWithinConcurrency == Len(workers) <= config.concurrency

\* C36: a shutdown that finds activeJobs empty completes also when the
\* child process of some worker of the pool has exited already.
C36_ShutdownWithExitedWorker ==
  (/\ isShuttingDown /\ activeJobs = {}
   /\ \E i \in DOMAIN wstate : wstate[i] = "dead") ~> (sdpc = "done")

\* C37: when add() was rejected, no job record of that call is in storage
\* and no job of that call is or was dispatched.
C37_RejectedAddStoresNothing ==
  (ret.op = "add" /\ ret.value = "rejected") =>
    /\ jobs[ret.id] = NoJob /\ deadLetterJobs[ret.id] = NoJob
    /\ ret.id \notin activeJobs
    /\ \A e \in emitted : e[2] # ret.id

\* C38: once the stored status of a job is completed, no task of the
\* runtime changes the stored record, and the job is not executed again.
C38_CompletedIsFinal ==
  [][\A id \in JobIds :
       (jobs[id] # NoJob /\ jobs[id].status = "completed") =>
         /\ jobs'[id] = jobs[id]
         /\ pc'[id] = "exec" => pc[id] = "exec"]_vars

\* C39: once shutdown() has been called, the scheduler is not running, no
\* ticker of it is armed and no recurrence timer is armed.
C39_NoTimersAfterShutdown ==
  isShuttingDown => (~isRunning /\ tickers = 0 /\ repeatingJobs = {})

\* C40: every stored job whose status is completed has progress 100 and
\* completedAt set, and every stored job whose status is processing has
\* startedAt set.
C40_StatusFieldsSet ==
  \A id \in JobIds :
    jobs[id] # NoJob =>
      /\ jobs[id].status = "completed" =>
           (jobs[id].progress = 100 /\ jobs[id].completedAt # Undefined)
      /\ jobs[id].status = "processing" => jobs[id].startedAt # Undefined

\* A job that the stalled checker had flagged while it was processing is
\* stored as completed after a restart of the process.
C40_Witness ==
  /\ restarts > 0
  /\ \E id \in JobIds :
       /\ jobs[id] # NoJob /\ jobs[id].status = "completed"
       /\ <<"stalled", id>> \in emitted

\* C1: the number of jobs in activeJobs never exceeds the configured
\* concurrency, with or without a rate limiter.
C1_ConcurrencyCap == Cardinality(activeJobs) <= config.concurrency

====
